---------------------------- MODULE Spec2Model ----------------------------
(***************************************************************************)
(* Replication log of latest values (LogLatest) of the storage-manager     *)
(* plugin: insert_event / update / lookup over time-classified Intervals   *)
(* and SubIntervals, with a Bloom filter over the key expressions and      *)
(* XOR-combined fingerprints.                                              *)
(***************************************************************************)
EXTENDS Integers, FiniteSets, Sequences, TLC

(***************************************************************************)
(* Bounds of the model.                                                    *)
(***************************************************************************)
\* key expressions 1..NumKeys (an Option<OwnedKeyExpr> value each)
NumKeys == 3
\* node ids 1..NumNodes of the hybrid logical clock
NumNodes == 1
\* fingerprints are naturals below FpMod (the u64 of the code, narrowed)
FpMod == 8
\* number of bits of the Bloom filter (one hash function)
BloomSize == 2
\* the largest interval index that fits the index type (u64::MAX, narrowed)
MaxIntervalIdx == 1
\* the longest iterator handed to update
MaxBatch == 2
\* the largest hot_era_size / warm_era_size a ReplicaConfig is given
MaxEraSize == 2
\* the digest comparisons of one alignment
MaxRounds == 2
\* the tasks that call the TransportManager at the same time
NumTasks == 2

(***************************************************************************)
(* Values.                                                                 *)
(***************************************************************************)
Keys == 1..NumKeys
Nodes == 1..NumNodes
Actions == {"Put", "Delete"}

\* ReplicaConfig of the log: interval width (in clock ticks) and sub-intervals
configuration == [interval_duration |-> 2, sub_intervals |-> 2]

\* clock values: every in-bound tick and the first tick that is out of bound
MaxTime == (MaxIntervalIdx + 1) * configuration.interval_duration
Times == 0..MaxTime
Timestamps == Times \X Nodes

\* Timestamp ordering: by time, then by node id
TsLess(a, b) == a[1] < b[1] \/ (a[1] = b[1] /\ a[2] < b[2])
TsLeq(a, b) == a = b \/ TsLess(a, b)

\* bitwise XOR of two naturals (Fingerprint ^ Fingerprint)
RECURSIVE xor(_, _)
xor(a, b) ==
  IF a = 0 THEN b
  ELSE IF b = 0 THEN a
  ELSE ((a + b) % 2) + 2 * xor(a \div 2, b \div 2)

\* the hash of (key, time, node id): a mixing function with collisions and zeros
Hash(key, ts) == (key * 5 + ts[1] * 3 + ts[2]) % FpMod

\* Event::new : the fingerprint covers key and timestamp, not the action
NewEvent(key, ts, action) ==
  [key_expr |-> key, timestamp |-> ts, action |-> action,
   fingerprint |-> Hash(key, ts)]

Events == {NewEvent(k, ts, a) : k \in Keys, ts \in Timestamps, a \in Actions}

NoEvent == [key_expr |-> 0, timestamp |-> <<0, 0>>, action |-> "None",
            fingerprint |-> 0]

Max(S) == CHOOSE x \in S : \A y \in S : y <= x
Min(S) == CHOOSE x \in S : \A y \in S : x <= y

(***************************************************************************)
(* Configuration::get_time_classification                                  *)
(***************************************************************************)
IntervalOf(ts) == ts[1] \div configuration.interval_duration

SubIntervalOf(ts) ==
  (ts[1] % configuration.interval_duration)
    \div (configuration.interval_duration \div configuration.sub_intervals)

\* Err(OutOfBound) when the interval index does not fit the index type
get_time_classification(ts) ==
  IF IntervalOf(ts) > MaxIntervalIdx
  THEN [ok |-> FALSE, interval_idx |-> 0, sub_interval_idx |-> 0]
  ELSE [ok |-> TRUE, interval_idx |-> IntervalOf(ts),
        sub_interval_idx |-> SubIntervalOf(ts)]

(***************************************************************************)
(* Bloom filter over key expressions: a set of bit positions.              *)
(***************************************************************************)
BloomBits(key) == {key % BloomSize}

\* Bloom::check
BloomCheckNever(bloom, key) == FALSE
BloomCheck(bloom, key) == BloomBits(key) \subseteq bloom

\* Bloom::set
BloomSetNothing(bloom, key) == bloom
BloomSet(bloom, key) == bloom \cup BloomBits(key)

(***************************************************************************)
(* SubInterval: events by key and the cached fingerprint.                  *)
(***************************************************************************)
EmptySubInterval == [events |-> <<>>, fingerprint |-> 0]

\* SubInterval::insert_unchecked : a map insert (overwrites), XOR into the cache
sub_insert_unchecked(sub, event) ==
  [events |-> [k \in (DOMAIN sub.events) \cup {event.key_expr} |->
                 IF k = event.key_expr THEN event ELSE sub.events[k]],
   fingerprint |-> xor(sub.fingerprint, event.fingerprint)]

\* SubInterval::if_newer_remove_older
sub_if_newer_remove_older(sub, key, ts) ==
  IF key \notin DOMAIN sub.events
  THEN [removal |-> "NotFound", old |-> NoEvent, sub |-> sub]
  ELSE IF TsLeq(ts, sub.events[key].timestamp)
  THEN [removal |-> "KeptNewer", old |-> NoEvent, sub |-> sub]
  ELSE [removal |-> "RemovedOlder", old |-> sub.events[key],
        sub |-> [events |-> [k \in (DOMAIN sub.events) \ {key} |-> sub.events[k]],
                 fingerprint |-> xor(sub.fingerprint, sub.events[key].fingerprint)]]

(***************************************************************************)
(* Interval: sub-intervals by index and the cached fingerprint.            *)
(***************************************************************************)
EmptyInterval == [sub_intervals |-> <<>>, fingerprint |-> 0]

\* Interval::insert_unchecked : route to the sub-interval, creating it if absent
interval_insert_unchecked(interval, sub_idx, event) ==
  LET subs == interval.sub_intervals
      cur == IF sub_idx \in DOMAIN subs THEN subs[sub_idx] ELSE EmptySubInterval
  IN [sub_intervals |-> [i \in (DOMAIN subs) \cup {sub_idx} |->
                           IF i = sub_idx THEN sub_insert_unchecked(cur, event)
                           ELSE subs[i]],
      fingerprint |-> xor(interval.fingerprint, event.fingerprint)]

\* Interval::if_newer_remove_older over the sub-intervals idxs, newest first
RECURSIVE interval_scan(_, _, _, _)
interval_scan(interval, idxs, key, ts) ==
  IF idxs = {}
  THEN [removal |-> "NotFound", old |-> NoEvent, interval |-> interval]
  ELSE LET i == Max(idxs)
           r == sub_if_newer_remove_older(interval.sub_intervals[i], key, ts)
       IN CASE r.removal = "NotFound" ->
                 interval_scan(interval, idxs \ {i}, key, ts)
            [] r.removal = "KeptNewer" ->
                 [removal |-> "KeptNewer", old |-> NoEvent, interval |-> interval]
            [] r.removal = "RemovedOlder" ->
                 [removal |-> "RemovedOlder", old |-> r.old,
                  interval |->
                    [sub_intervals |->
                       [interval.sub_intervals EXCEPT ![i] = r.sub],
                     fingerprint |-> xor(interval.fingerprint, r.old.fingerprint)]]

interval_if_newer_remove_older(interval, key, ts) ==
  interval_scan(interval, DOMAIN interval.sub_intervals, key, ts)

\* Interval::lookup over the sub-intervals idxs, newest first
RECURSIVE interval_lookup_from(_, _, _)
interval_lookup_from(interval, idxs, key) ==
  IF idxs = {} THEN NoEvent
  ELSE LET i == Max(idxs)
       IN IF key \in DOMAIN interval.sub_intervals[i].events
          THEN interval.sub_intervals[i].events[key]
          ELSE interval_lookup_from(interval, idxs \ {i}, key)

interval_lookup(interval, key) ==
  interval_lookup_from(interval, DOMAIN interval.sub_intervals, key)


(***************************************************************************)
(* LogLatest: intervals by index, and the Bloom filter.                    *)
(***************************************************************************)
VARIABLES
  intervals,            \* LogLatest.intervals : BTreeMap<IntervalIdx, Interval>
  bloom_filter_event,   \* LogLatest.bloom_filter_event
  op,                   \* the last operation called on the log
  arg,                  \* the Event handed to the last insert_event
  result,               \* the EventInsertion the last insert_event returned
  newest,               \* history: per key, the newest in-bound Timestamp handed over
  input,                \* the two event sequences of an order-independence run
  output,               \* the two logs such a run produced
  replica_config,       \* the era sizes of the ReplicaConfig the log was built with
  read,                 \* what the last lookup / digest_from call returned
  writer,               \* the insert_event call in progress, and how far it is
  peer,                 \* the log of the remote replica
  replica,              \* the alignment of the local replica with the peer
  storage,              \* the storage the log is attached to, and how it started
  protocols,            \* TransportManagerStateMulticast.protocols (its keys)
  transports,           \* TransportManagerStateMulticast.transports (its keys)
  calls,                \* per task, its call on the TransportManager and how far it is
  config,               \* TransportManager.config: the supported protocols
  locks                 \* per lock of the manager, the task that holds it (0: none)

\* the variables of the multicast TransportManager
manager == <<protocols, transports, calls, config, locks>>

\* the variables of the replication log and of its alignment
log == <<intervals, bloom_filter_event, op, arg, result, newest, input, output,
         replica_config, read, writer, peer, replica>>

vars == <<intervals, bloom_filter_event, op, arg, result, newest, input, output,
          replica_config, read, writer, peer, replica, storage, protocols,
          transports, calls, config, locks>>

\* EventInsertion
Insertion(kind, event) == [kind |-> kind, event |-> event]
NoResult == Insertion("None", NoEvent)

\* the events an interval holds, of any key
EventsOfInterval(interval) ==
  UNION {{interval.sub_intervals[s].events[k] :
            k \in DOMAIN interval.sub_intervals[s].events} :
         s \in DOMAIN interval.sub_intervals}

\* the events the log holds
StoredEvents(ivs) == UNION {EventsOfInterval(ivs[i]) : i \in DOMAIN ivs}

\* the (interval, sub-interval) places of the log
Places(ivs) ==
  UNION {{<<i, s>> : s \in DOMAIN ivs[i].sub_intervals} : i \in DOMAIN ivs}

\* the places that hold an event of this key
PlacesOf(ivs, key) ==
  {p \in Places(ivs) : key \in DOMAIN ivs[p[1]].sub_intervals[p[2]].events}

\* LogLatest::lookup over the intervals idxs, newest first
RECURSIVE lookup_from(_, _, _)
lookup_from(ivs, idxs, key) ==
  IF idxs = {} THEN NoEvent
  ELSE LET i == Max(idxs)
           e == interval_lookup(ivs[i], key)
       IN IF e # NoEvent THEN e ELSE lookup_from(ivs, idxs \ {i}, key)

\* a lookup that looks at the newest interval only
lookup_newest_only(ivs, bloom, key) ==
  IF ~BloomCheck(bloom, key) \/ DOMAIN ivs = {} THEN NoEvent
  ELSE lookup_from(ivs, {Max(DOMAIN ivs)}, key)

lookup(ivs, bloom, key) ==
  IF ~BloomCheck(bloom, key) THEN NoEvent
  ELSE lookup_from(ivs, DOMAIN ivs, key)

\* a loop that takes KeptNewer for NotFound and goes on
RECURSIVE scan_from_ignoring_newer(_, _, _)
scan_from_ignoring_newer(ivs, idxs, event) ==
  IF idxs = {}
  THEN [removal |-> "NotFound", old |-> NoEvent, intervals |-> ivs]
  ELSE LET i == Max(idxs)
           r == interval_if_newer_remove_older(ivs[i], event.key_expr,
                                               event.timestamp)
       IN IF r.removal = "RemovedOlder"
          THEN [removal |-> "RemovedOlder", old |-> r.old,
                intervals |-> [ivs EXCEPT ![i] = r.interval]]
          ELSE scan_from_ignoring_newer(ivs, idxs \ {i}, event)

\* the loop of insert_event over the intervals idxs, newest first:
\* RemovedOlder breaks, KeptNewer returns, NotFound continues
RECURSIVE scan_from(_, _, _)
scan_from(ivs, idxs, event) ==
  IF idxs = {}
  THEN [removal |-> "NotFound", old |-> NoEvent, intervals |-> ivs]
  ELSE LET i == Max(idxs)
           r == interval_if_newer_remove_older(ivs[i], event.key_expr,
                                               event.timestamp)
       IN CASE r.removal = "NotFound" -> scan_from(ivs, idxs \ {i}, event)
            [] r.removal = "KeptNewer" ->
                 [removal |-> "KeptNewer", old |-> NoEvent, intervals |-> ivs]
            [] r.removal = "RemovedOlder" ->
                 [removal |-> "RemovedOlder", old |-> r.old,
                  intervals |-> [ivs EXCEPT ![i] = r.interval]]

\* a scan that looks at the newest interval only
ScanNewestOnly(ivs, bloom, event) ==
  IF BloomCheck(bloom, event.key_expr) /\ DOMAIN ivs # {}
  THEN scan_from(ivs, {Max(DOMAIN ivs)}, event)
  ELSE [removal |-> "NotFound", old |-> NoEvent, intervals |-> ivs]

\* the guarded scan: only when the Bloom filter reports the key
ScanIntervals(ivs, bloom, event) ==
  IF BloomCheck(bloom, event.key_expr)
  THEN scan_from(ivs, DOMAIN ivs, event)
  ELSE [removal |-> "NotFound", old |-> NoEvent, intervals |-> ivs]

\* an outcome that forgets the removed event
InsertionResultAlwaysNew(scan, event) == Insertion("New", event)

\* match result { Some(old) => ReplacedOlder(old), None => New(event) }
InsertionResult(scan, event) ==
  IF scan.removal = "RemovedOlder"
  THEN Insertion("ReplacedOlder", scan.old)
  ELSE Insertion("New", event)

\* a store that starts the interval anew
StoreEventInNewInterval(ivs, interval_idx, sub_idx, event) ==
  [i \in (DOMAIN ivs) \cup {interval_idx} |->
     IF i = interval_idx
     THEN interval_insert_unchecked(EmptyInterval, sub_idx, event)
     ELSE ivs[i]]

\* a store that takes the sub-interval index for the interval index
StoreEventSwapped(ivs, interval_idx, sub_idx, event) ==
  LET cur == IF sub_idx \in DOMAIN ivs THEN ivs[sub_idx] ELSE EmptyInterval
  IN [i \in (DOMAIN ivs) \cup {sub_idx} |->
        IF i = sub_idx THEN interval_insert_unchecked(cur, interval_idx, event)
        ELSE ivs[i]]

\* intervals.entry(interval_idx).or_default().insert_unchecked(sub_idx, event)
StoreEvent(ivs, interval_idx, sub_idx, event) ==
  LET cur == IF interval_idx \in DOMAIN ivs THEN ivs[interval_idx]
             ELSE EmptyInterval
  IN [i \in (DOMAIN ivs) \cup {interval_idx} |->
        IF i = interval_idx THEN interval_insert_unchecked(cur, sub_idx, event)
        ELSE ivs[i]]

\* an insert_event that sets the Bloom filter before it classifies the timestamp
insert_event_bloom_first(ivs, bloom, event) ==
  LET scan == ScanIntervals(ivs, bloom, event)
      c == get_time_classification(event.timestamp)
  IN IF scan.removal = "KeptNewer"
     THEN [intervals |-> ivs, bloom |-> bloom,
           result |-> Insertion("NotInsertedAsOlder", NoEvent)]
     ELSE IF ~c.ok
     THEN [intervals |-> scan.intervals,
           bloom |-> BloomSet(bloom, event.key_expr),
           result |-> Insertion("NotInsertedAsOutOfBound", NoEvent)]
     ELSE [intervals |-> StoreEvent(scan.intervals, c.interval_idx,
                                    c.sub_interval_idx, event),
           bloom |-> BloomSet(bloom, event.key_expr),
           result |-> InsertionResult(scan, event)]

\* an insert_event that takes the key out of the Bloom filter when the
\* event is out of bound
insert_event_forgetting_key(ivs, bloom, event) ==
  LET scan == ScanIntervals(ivs, bloom, event)
      c == get_time_classification(event.timestamp)
  IN IF scan.removal = "KeptNewer"
     THEN [intervals |-> ivs, bloom |-> bloom,
           result |-> Insertion("NotInsertedAsOlder", NoEvent)]
     ELSE IF ~c.ok
     THEN [intervals |-> scan.intervals,
           bloom |-> bloom \ BloomBits(event.key_expr),
           result |-> Insertion("NotInsertedAsOutOfBound", NoEvent)]
     ELSE [intervals |-> StoreEvent(scan.intervals, c.interval_idx,
                                    c.sub_interval_idx, event),
           bloom |-> BloomSet(bloom, event.key_expr),
           result |-> InsertionResult(scan, event)]

\* LogLatest::insert_event : the log after the call, and the outcome.
\* The scan (and its removal) comes first, the classification second: an
\* out-of-bound event returns after the older event of its key was removed.
insert_event(ivs, bloom, event) ==
  LET scan == ScanIntervals(ivs, bloom, event)
      c == get_time_classification(event.timestamp)
  IN IF scan.removal = "KeptNewer"
     THEN [intervals |-> ivs, bloom |-> bloom,
           result |-> Insertion("NotInsertedAsOlder", NoEvent)]
     ELSE IF ~c.ok
     THEN [intervals |-> scan.intervals, bloom |-> bloom,
           result |-> Insertion("NotInsertedAsOutOfBound", NoEvent)]
     ELSE [intervals |-> StoreEvent(scan.intervals, c.interval_idx,
                                    c.sub_interval_idx, event),
           bloom |-> BloomSet(bloom, event.key_expr),
           result |-> InsertionResult(scan, event)]

\* an update that stops at the first event that is not inserted
RECURSIVE update_stopping(_, _, _)
update_stopping(ivs, bloom, events) ==
  IF events = <<>> THEN [intervals |-> ivs, bloom |-> bloom]
  ELSE LET r == insert_event(ivs, bloom, Head(events))
       IN IF r.result.kind \in {"NotInsertedAsOlder", "NotInsertedAsOutOfBound"}
          THEN [intervals |-> r.intervals, bloom |-> r.bloom]
          ELSE update_stopping(r.intervals, r.bloom, Tail(events))

\* LogLatest::update : insert_event on each event in order, outcomes dropped
RECURSIVE update(_, _, _)
update(ivs, bloom, events) ==
  IF events = <<>> THEN [intervals |-> ivs, bloom |-> bloom]
  ELSE LET r == insert_event(ivs, bloom, Head(events))
       IN update(r.intervals, r.bloom, Tail(events))

\* the iterators handed to update: up to MaxBatch events
RECURSIVE SeqsUpTo(_)
SeqsUpTo(n) ==
  IF n = 0 THEN {<<>>}
  ELSE LET shorter == SeqsUpTo(n - 1)
       IN shorter \cup {Append(q, e) : q \in shorter, e \in Events}

Batches == SeqsUpTo(MaxBatch)

(***************************************************************************)
(* Configuration: the eras and the configuration fingerprint.              *)
(***************************************************************************)
\* the era sizes of a ReplicaConfig
ReplicaConfigs == [hot_era_size : 0..MaxEraSize, warm_era_size : 0..MaxEraSize]

\* a hot lower bound that saturates the subtraction before it adds 1
hot_era_lower_bound_saturating_first(cfg, upper) ==
  (IF upper >= cfg.hot_era_size THEN upper - cfg.hot_era_size ELSE 0) + 1

\* Configuration::hot_era_lower_bound : upper - hot_era_size + 1, not below 0
hot_era_lower_bound(cfg, upper) ==
  IF upper + 1 >= cfg.hot_era_size THEN upper + 1 - cfg.hot_era_size ELSE 0

\* Configuration::warm_era_lower_bound : hot lower bound - warm_era_size, not
\* below 0
warm_era_lower_bound(cfg, upper) ==
  IF hot_era_lower_bound(cfg, upper) >= cfg.warm_era_size
  THEN hot_era_lower_bound(cfg, upper) - cfg.warm_era_size
  ELSE 0

\* Configuration::fingerprint : a hash of the numeric parameters in fixed order
configuration_fingerprint(cfg) ==
  (configuration.interval_duration * 7 + configuration.sub_intervals * 5
     + cfg.hot_era_size * 3 + cfg.warm_era_size) % FpMod

\* Interval::sub_intervals_fingerprints : the sub-intervals whose fingerprint
\* is not 0, each with its fingerprint
sub_intervals_fingerprints(interval) ==
  [s \in {x \in DOMAIN interval.sub_intervals :
            interval.sub_intervals[x].fingerprint # 0} |->
     interval.sub_intervals[s].fingerprint]

(***************************************************************************)
(* LogLatest::digest_from                                                  *)
(***************************************************************************)
\* HashMap::insert
MapInsert(map, k, v) ==
  [x \in (DOMAIN map) \cup {k} |-> IF x = k THEN v ELSE map[x]]

\* Digest, before any interval was visited
EmptyDigest(cfg) ==
  [configuration_fingerprint |-> configuration_fingerprint(cfg),
   cold_era_fingerprint |-> 0,
   warm_era_fingerprints |-> <<>>,
   hot_era_fingerprints |-> <<>>]

\* a loop body that lists a warm interval whatever its fingerprint
digest_visit_warm_all(digest, cfg, upper, interval_idx, interval) ==
  IF interval_idx < warm_era_lower_bound(cfg, upper)
  THEN [digest EXCEPT !.cold_era_fingerprint = xor(@, interval.fingerprint)]
  ELSE IF interval_idx < hot_era_lower_bound(cfg, upper)
  THEN [digest EXCEPT !.warm_era_fingerprints =
                        MapInsert(@, interval_idx, interval.fingerprint)]
  ELSE [digest EXCEPT !.hot_era_fingerprints =
                        MapInsert(@, interval_idx,
                                  sub_intervals_fingerprints(interval))]

\* a loop body that takes the interval at the hot lower bound for a warm one
digest_visit_hot_after_bound(digest, cfg, upper, interval_idx, interval) ==
  IF interval_idx < warm_era_lower_bound(cfg, upper)
  THEN [digest EXCEPT !.cold_era_fingerprint = xor(@, interval.fingerprint)]
  ELSE IF interval_idx <= hot_era_lower_bound(cfg, upper)
  THEN IF interval.fingerprint # 0
       THEN [digest EXCEPT !.warm_era_fingerprints =
                             MapInsert(@, interval_idx, interval.fingerprint)]
       ELSE digest
  ELSE [digest EXCEPT !.hot_era_fingerprints =
                        MapInsert(@, interval_idx,
                                  sub_intervals_fingerprints(interval))]

\* the body of the loop of digest_from for one interval
digest_visit(digest, cfg, upper, interval_idx, interval) ==
  IF interval_idx < warm_era_lower_bound(cfg, upper)
  THEN [digest EXCEPT !.cold_era_fingerprint = xor(@, interval.fingerprint)]
  ELSE IF interval_idx < hot_era_lower_bound(cfg, upper)
  THEN IF interval.fingerprint # 0
       THEN [digest EXCEPT !.warm_era_fingerprints =
                             MapInsert(@, interval_idx, interval.fingerprint)]
       ELSE digest
  ELSE [digest EXCEPT !.hot_era_fingerprints =
                        MapInsert(@, interval_idx,
                                  sub_intervals_fingerprints(interval))]

\* the loop of digest_from over the intervals idxs, in increasing order
RECURSIVE digest_loop(_, _, _, _, _)
digest_loop(ivs, idxs, cfg, upper, digest) ==
  IF idxs = {} THEN digest
  ELSE LET i == Min(idxs)
       IN digest_loop(ivs, idxs \ {i}, cfg, upper,
                      digest_visit(digest, cfg, upper, i, ivs[i]))

\* a digest_from that visits every interval, also those after the upper bound
digest_from_unfiltered(ivs, cfg, upper) ==
  digest_loop(ivs, DOMAIN ivs, cfg, upper, EmptyDigest(cfg))

\* LogLatest::digest_from : the intervals up to the upper bound of the hot era
digest_from(ivs, cfg, upper) ==
  digest_loop(ivs, {i \in DOMAIN ivs : i <= upper}, cfg, upper, EmptyDigest(cfg))

(***************************************************************************)
(* The state machine: a log that starts empty, and the calls on it.        *)
(***************************************************************************)
NoTs == <<0, 0>>
NoInput == [a |-> <<>>, b |-> <<>>]
NoOutput == [done |-> FALSE, ab |-> {}, ba |-> {}]

\* the era sizes of a log whose digest is not asked for
DefaultReplicaConfig == [hot_era_size |-> 1, warm_era_size |-> 1]

\* no lookup / digest_from call returned yet
NoRead == [kind |-> "none", n |-> 0, event |-> NoEvent,
           digest |-> EmptyDigest(DefaultReplicaConfig)]

\* no insert_event call is in progress
Idle == [at |-> "idle", event |-> NoEvent, old |-> NoEvent,
         before |-> [intervals |-> <<>>, bloom |-> {}]]

\* a log as built by LogLatest::new
NewLog(cfg) == [intervals |-> <<>>, bloom |-> {}, replica_config |-> cfg]

\* a replica that did not compare digests yet
FreshReplica == [state |-> "Fresh", error |-> "None", n |-> 0, round |-> 0,
                 cold |-> FALSE, warm |-> {}, hot |-> {}]

\* the storage of a log in use: its backend keeps the latest value of each key
Attached == [history |-> "Latest", created |-> TRUE, error |-> "None",
             log |-> TRUE]

\* the protocols an endpoint can name
Protocols == {"udp", "tcp"}

\* the addresses an endpoint can name: two multicast groups, a unicast
\* address, and one the inspector fails on
Addresses == {"224.0.0.1", "224.0.0.2", "10.0.0.1", "nowhere"}

\* the configuration part of an endpoint (after the '#')
EndPointConfigs == {"", "iface=lo"}

EndPoints ==
  [protocol : Protocols, address : Addresses, config : EndPointConfigs]

\* EndPoint::to_locator : the endpoint without its configuration
to_locator(endpoint) ==
  [protocol |-> endpoint.protocol, address |-> endpoint.address]

Locators == {to_locator(e) : e \in EndPoints}

\* LocatorInspector::is_multicast : Ok(true), Ok(false) or an error
is_multicast(locator) ==
  IF locator.address \in {"224.0.0.1", "224.0.0.2"} THEN "true"
  ELSE IF locator.address = "10.0.0.1" THEN "false"
  ELSE "error"

\* the tasks that call the TransportManager
Tasks == 1..NumTasks

\* a task that calls nothing. manager: the link manager the call holds
\* ("registered": the one in the protocols map, "stale": one no longer in it);
\* found: a delete removed a transport; drained: the transports a
\* close_multicast still has to close; pending: the transports registered
\* when the close_multicast started that close was not called on since;
\* twice: it called close on a drained transport that is not pending; opens,
\* dels: another task took a step of an open, of a delete, during the close
NoEndPoint == [protocol |-> "", address |-> "", config |-> ""]
NoCall == [op |-> "none", at |-> "idle", endpoint |-> NoEndPoint,
           result |-> "None", manager |-> "none", found |-> FALSE,
           drained |-> {}, pending |-> {}, twice |-> FALSE, opens |-> FALSE,
           dels |-> FALSE]

\* no lock is held (0)
NoLocks == [protocols |-> 0, transports |-> 0]

\* the log is attached, and no TransportManager is in use
LogOnly ==
  /\ storage = Attached
  /\ protocols = {}
  /\ transports = {}
  /\ calls = [t \in Tasks |-> NoCall]
  /\ config = [protocols |-> {}]
  /\ locks = NoLocks

\* no read, no call in progress, no alignment
Quiet ==
  /\ read = NoRead
  /\ writer = Idle
  /\ peer = NewLog(replica_config)
  /\ replica = FreshReplica
  /\ LogOnly

\* LogLatest::new
Init ==
  /\ intervals = <<>>
  /\ bloom_filter_event = {}
  /\ op = "new"
  /\ arg = NoEvent
  /\ result = NoResult
  /\ newest = [k \in Keys |-> NoTs]
  /\ input = NoInput
  /\ output = NoOutput
  /\ replica_config = DefaultReplicaConfig
  /\ Quiet

\* insert_event(e), the caller keeping the outcome
InsertEvent ==
  \E e \in Events :
    \E r \in {insert_event(intervals, bloom_filter_event, e)} :
       /\ intervals' = r.intervals
       /\ bloom_filter_event' = r.bloom
       /\ op' = "insert_event"
       /\ arg' = e
       /\ result' = r.result
       /\ UNCHANGED <<newest, input, output, replica_config, read, writer,
                    peer, replica, storage, manager>>

Next == InsertEvent

Spec == Init /\ [][Next]_vars

\* update(events); an iterator of one event is one insert_event call
Update ==
  \E events \in Batches :
    \E r \in {update(intervals, bloom_filter_event, events)} :
       /\ intervals' = r.intervals
       /\ bloom_filter_event' = r.bloom
       /\ op' = "update"
       /\ UNCHANGED <<arg, result, newest, input, output, replica_config, read,
                    writer, peer, replica, storage, manager>>

NextUpdate == Update

SpecUpdate == Init /\ [][NextUpdate]_vars

\* the newest in-bound Timestamp handed over for the event's key, after this event
Newest(hist, event) ==
  IF /\ get_time_classification(event.timestamp).ok
     /\ \/ hist[event.key_expr] = NoTs
        \/ TsLess(hist[event.key_expr], event.timestamp)
  THEN [hist EXCEPT ![event.key_expr] = event.timestamp]
  ELSE hist

\* insert_event(e), with the history of the timestamps handed over
InsertEventRecorded ==
  \E e \in Events :
    \E r \in {insert_event(intervals, bloom_filter_event, e)} :
       /\ intervals' = r.intervals
       /\ bloom_filter_event' = r.bloom
       /\ op' = "insert_event"
       /\ newest' = Newest(newest, e)
       /\ UNCHANGED <<arg, result, input, output, replica_config, read, writer,
                    peer, replica, storage, manager>>

NextLww == InsertEventRecorded

SpecLww == Init /\ [][NextLww]_vars

\* no two events of the sequence are one publication (key, timestamp) with
\* two actions
DistinctPublications(events) ==
  \A i, j \in DOMAIN events :
    (/\ events[i].key_expr = events[j].key_expr
     /\ events[i].timestamp = events[j].timestamp)
      => events[i].action = events[j].action

\* two event sequences A and B, and two empty logs
InitConverge ==
  /\ intervals = <<>>
  /\ bloom_filter_event = {}
  /\ op = "new"
  /\ arg = NoEvent
  /\ result = NoResult
  /\ newest = [k \in Keys |-> NoTs]
  /\ input \in {[a |-> A, b |-> B] : A \in Batches, B \in SeqsUpTo(1)}
  /\ DistinctPublications(input.a \o input.b)
  /\ output = NoOutput
  /\ replica_config = DefaultReplicaConfig
  /\ Quiet

\* A then B into one log, B then A into the other
Converge ==
  /\ ~output.done
  /\ output' =
       [done |-> TRUE,
        ab |-> StoredEvents(update(<<>>, {}, input.a \o input.b).intervals),
        ba |-> StoredEvents(update(<<>>, {}, input.b \o input.a).intervals)]
  /\ UNCHANGED <<intervals, bloom_filter_event, op, arg, result, newest, input,
                 replica_config, read, writer, peer, replica, storage,
                 manager>>

NextConverge == Converge

SpecConverge == InitConverge /\ [][NextConverge]_vars

(***************************************************************************)
(* Reads: lookup and digest_from on a log that insert_event calls built.   *)
(***************************************************************************)
\* LogLatest::new, with the era sizes of any ReplicaConfig
InitRead ==
  /\ intervals = <<>>
  /\ bloom_filter_event = {}
  /\ op = "new"
  /\ arg = NoEvent
  /\ result = NoResult
  /\ newest = [k \in Keys |-> NoTs]
  /\ input = NoInput
  /\ output = NoOutput
  /\ replica_config \in ReplicaConfigs
  /\ Quiet

\* insert_event(e), the caller dropping the outcome
Insert ==
  /\ writer = Idle
  /\ \E e \in Events :
       \E r \in {insert_event(intervals, bloom_filter_event, e)} :
          /\ intervals' = r.intervals
          /\ bloom_filter_event' = r.bloom
  /\ op' = "insert_event"
  /\ read' = NoRead
  /\ UNCHANGED <<arg, result, newest, input, output, replica_config, writer,
                 peer, replica, storage, manager>>

\* a lookup that does not wait for the insert_event call in progress
LookupUnlocked ==
  /\ \E key \in Keys :
       read' = [NoRead EXCEPT !.kind = "lookup", !.n = key,
                  !.event = lookup(intervals, bloom_filter_event, key)]
  /\ op' = "lookup"
  /\ UNCHANGED <<intervals, bloom_filter_event, arg, result, newest, input,
                 output, replica_config, writer, peer, replica,
                 storage, manager>>

\* lookup(key) : &self, the log is read only
Lookup ==
  /\ writer = Idle
  /\ \E key \in Keys :
       read' = [NoRead EXCEPT !.kind = "lookup", !.n = key,
                  !.event = lookup(intervals, bloom_filter_event, key)]
  /\ op' = "lookup"
  /\ UNCHANGED <<intervals, bloom_filter_event, arg, result, newest, input,
                 output, replica_config, writer, peer, replica,
                 storage, manager>>

\* a digest_from that takes the intervals out of the log
DigestFromTaking ==
  /\ writer = Idle
  /\ \E upper \in 0..MaxIntervalIdx :
       read' = [NoRead EXCEPT !.kind = "digest_from", !.n = upper,
                  !.digest = digest_from(intervals, replica_config, upper)]
  /\ op' = "digest_from"
  /\ intervals' = <<>>
  /\ UNCHANGED <<bloom_filter_event, arg, result, newest, input,
                 output, replica_config, writer, peer, replica,
                 storage, manager>>

\* digest_from(upper) : &self, the log is read only
DigestFrom ==
  /\ writer = Idle
  /\ \E upper \in 0..MaxIntervalIdx :
       read' = [NoRead EXCEPT !.kind = "digest_from", !.n = upper,
                  !.digest = digest_from(intervals, replica_config, upper)]
  /\ op' = "digest_from"
  /\ UNCHANGED <<intervals, bloom_filter_event, arg, result, newest, input,
                 output, replica_config, writer, peer, replica,
                 storage, manager>>

NextRead == Insert \/ Lookup \/ DigestFrom

SpecRead == InitRead /\ [][NextRead]_vars

(***************************************************************************)
(* The first event of a log, and the reads after it.                       *)
(***************************************************************************)
NextNewKey == (op = "new" /\ InsertEvent) \/ Lookup \/ DigestFrom

SpecNewKey == InitRead /\ [][NextNewKey]_vars

(***************************************************************************)
(* update on a new log, for every iterator of up to MaxBatch + 1 events.   *)
(***************************************************************************)
InitEach ==
  /\ intervals = <<>>
  /\ bloom_filter_event = {}
  /\ op = "new"
  /\ arg = NoEvent
  /\ result = NoResult
  /\ newest = [k \in Keys |-> NoTs]
  /\ input \in {[a |-> A, b |-> <<>>] : A \in SeqsUpTo(MaxBatch + 1)}
  /\ output = NoOutput
  /\ replica_config = DefaultReplicaConfig
  /\ Quiet

\* update(input.a)
UpdateInput ==
  /\ op = "new"
  /\ \E r \in {update(intervals, bloom_filter_event, input.a)} :
       /\ intervals' = r.intervals
       /\ bloom_filter_event' = r.bloom
  /\ op' = "update"
  /\ UNCHANGED <<arg, result, newest, input, output, replica_config, read,
                 writer, peer, replica, storage, manager>>

NextEach == UpdateInput

SpecEach == InitEach /\ [][NextEach]_vars

(***************************************************************************)
(* insert_event statement by statement, and the reads between the calls:   *)
(* insert_event borrows the log mutably (&mut self) from its first         *)
(* statement to its return, lookup and digest_from borrow it shared.       *)
(***************************************************************************)
\* insert_event(e) is entered
Begin ==
  /\ writer = Idle
  /\ \E e \in Events :
       writer' = [at |-> "scan", event |-> e, old |-> NoEvent,
                  before |-> [intervals |-> intervals,
                              bloom |-> bloom_filter_event]]
  /\ op' = "insert_event"
  /\ read' = NoRead
  /\ UNCHANGED <<intervals, bloom_filter_event, arg, result, newest, input,
                 output, replica_config, peer, replica, storage, manager>>

\* the Bloom check and the loop over the intervals; KeptNewer returns
Scan ==
  /\ writer.at = "scan"
  /\ \E scan \in {ScanIntervals(intervals, bloom_filter_event, writer.event)} :
       IF scan.removal = "KeptNewer"
       THEN /\ writer' = Idle
            /\ UNCHANGED intervals
       ELSE /\ writer' = [writer EXCEPT !.at = "classify", !.old = scan.old]
            /\ intervals' = scan.intervals
  /\ UNCHANGED <<bloom_filter_event, op, arg, result, newest, input, output,
                 replica_config, read, peer, replica, storage, manager>>

\* get_time_classification; Err returns
Classify ==
  /\ writer.at = "classify"
  /\ IF get_time_classification(writer.event.timestamp).ok
     THEN writer' = [writer EXCEPT !.at = "set"]
     ELSE writer' = Idle
  /\ UNCHANGED <<intervals, bloom_filter_event, op, arg, result, newest, input,
                 output, replica_config, read, peer, replica,
                 storage, manager>>

\* bloom_filter_event.set
SetBloom ==
  /\ writer.at = "set"
  /\ bloom_filter_event' = BloomSet(bloom_filter_event, writer.event.key_expr)
  /\ writer' = [writer EXCEPT !.at = "store"]
  /\ UNCHANGED <<intervals, op, arg, result, newest, input, output,
                 replica_config, read, peer, replica, storage, manager>>

\* intervals.entry(..).or_default().insert_unchecked(..), and the return
Store ==
  /\ writer.at = "store"
  /\ \E c \in {get_time_classification(writer.event.timestamp)} :
       intervals' = StoreEvent(intervals, c.interval_idx, c.sub_interval_idx,
                               writer.event)
  /\ writer' = Idle
  /\ UNCHANGED <<bloom_filter_event, op, arg, result, newest, input, output,
                 replica_config, read, peer, replica, storage, manager>>

NextSerial ==
  Begin \/ Scan \/ Classify \/ SetBloom \/ Store \/ Lookup \/ DigestFrom

SpecSerial == Init /\ [][NextSerial]_vars

(***************************************************************************)
(* Digest comparison and alignment of the local replica with a peer.       *)
(***************************************************************************)
\* the sub-interval fingerprints a hot map gives for an interval
SubsOf(hot, i) == IF i \in DOMAIN hot THEN hot[i] ELSE <<>>

\* the entry x is absent on one side, or the two sides differ on it
Differs(a, b, x) == x \notin DOMAIN a \/ x \notin DOMAIN b \/ a[x] # b[x]

\* a comparison that does not look at the configuration fingerprints
compare_digests_any_configuration(DL, DR) ==
  [error |-> "None",
   cold |-> DL.cold_era_fingerprint # DR.cold_era_fingerprint,
   warm |-> {i \in DOMAIN DL.warm_era_fingerprints
                     \cup DOMAIN DR.warm_era_fingerprints :
               Differs(DL.warm_era_fingerprints, DR.warm_era_fingerprints, i)},
   hot |-> UNION {{<<i, x>> :
                     x \in {y \in DOMAIN SubsOf(DL.hot_era_fingerprints, i)
                                    \cup DOMAIN SubsOf(DR.hot_era_fingerprints, i) :
                              Differs(SubsOf(DL.hot_era_fingerprints, i),
                                      SubsOf(DR.hot_era_fingerprints, i), y)}} :
                  i \in DOMAIN DL.hot_era_fingerprints
                          \cup DOMAIN DR.hot_era_fingerprints}]

\* a comparison that walks the entries of the local digest only
compare_digests_local_entries(DL, DR) ==
  IF DL.configuration_fingerprint # DR.configuration_fingerprint
  THEN [error |-> "ConfigurationMismatch", cold |-> FALSE, warm |-> {},
        hot |-> {}]
  ELSE [error |-> "None",
        cold |-> DL.cold_era_fingerprint # DR.cold_era_fingerprint,
        warm |-> {i \in DOMAIN DL.warm_era_fingerprints :
                    Differs(DL.warm_era_fingerprints,
                            DR.warm_era_fingerprints, i)},
        hot |-> UNION {{<<i, x>> :
                          x \in {y \in DOMAIN DL.hot_era_fingerprints[i] :
                                   Differs(DL.hot_era_fingerprints[i],
                                           SubsOf(DR.hot_era_fingerprints, i),
                                           y)}} :
                       i \in DOMAIN DL.hot_era_fingerprints}]

\* a comparison that asks for the cold era whatever its fingerprints
compare_digests_cold_always(DL, DR) ==
  IF DL.configuration_fingerprint # DR.configuration_fingerprint
  THEN [error |-> "ConfigurationMismatch", cold |-> FALSE, warm |-> {},
        hot |-> {}]
  ELSE [compare_digests_any_configuration(DL, DR) EXCEPT !.cold = TRUE]

\* the comparison of the local digest DL with the remote digest DR: the error,
\* or the cold era, the warm intervals and the hot sub-intervals to request
compare_digests(DL, DR) ==
  IF DL.configuration_fingerprint # DR.configuration_fingerprint
  THEN [error |-> "ConfigurationMismatch", cold |-> FALSE, warm |-> {},
        hot |-> {}]
  ELSE compare_digests_any_configuration(DL, DR)

\* the events a log returns for the requested parts
EventsRequested(ivs, cfg, n, req) ==
  UNION {IF \/ req.cold /\ i < warm_era_lower_bound(cfg, n)
            \/ i \in req.warm
         THEN EventsOfInterval(ivs[i])
         ELSE UNION {{ivs[i].sub_intervals[x].events[k] :
                        k \in DOMAIN ivs[i].sub_intervals[x].events} :
                     x \in {y \in DOMAIN ivs[i].sub_intervals :
                              <<i, y>> \in req.hot}} :
         i \in {j \in DOMAIN ivs : j <= n}}

\* the events of a reply, as the iterator handed to update
RECURSIVE SeqOf(_)
SeqOf(S) ==
  IF S = {} THEN <<>>
  ELSE LET x == CHOOSE y \in S : TRUE IN <<x>> \o SeqOf(S \ {x})

\* requests are waiting for their events
Pending == replica.cold \/ replica.warm # {} \/ replica.hot # {}

\* the sequences of up to n publications (Put); the action of an event is
\* neither in its fingerprint nor in the comparison of two timestamps
PutsUpTo(n) == {q \in SeqsUpTo(n) : \A i \in DOMAIN q : q[i].action = "Put"}

\* two replicas with one configuration, and the events each one stored
InitAlign ==
  /\ intervals = <<>>
  /\ bloom_filter_event = {}
  /\ op = "new"
  /\ arg = NoEvent
  /\ result = NoResult
  /\ newest = [k \in Keys |-> NoTs]
  /\ input \in {[a |-> A, b |-> B] : A \in PutsUpTo(MaxBatch), B \in PutsUpTo(1)}
  /\ output = NoOutput
  /\ replica_config \in ReplicaConfigs
  /\ Quiet

\* two replicas with any two configurations, and the events each one stored
InitPeers ==
  /\ intervals = <<>>
  /\ bloom_filter_event = {}
  /\ op = "new"
  /\ arg = NoEvent
  /\ result = NoResult
  /\ newest = [k \in Keys |-> NoTs]
  /\ input \in {[a |-> A, b |-> B] : A \in SeqsUpTo(1), B \in SeqsUpTo(1)}
  /\ output = NoOutput
  /\ replica_config \in ReplicaConfigs
  /\ read = NoRead
  /\ writer = Idle
  /\ peer \in {NewLog(cfg) : cfg \in ReplicaConfigs}
  /\ replica = FreshReplica
  /\ LogOnly

\* both logs are rebuilt from what their storage holds, by an initial update
Replay ==
  /\ op = "new"
  /\ replica.state = "Fresh"
  /\ \E l \in {update(intervals, bloom_filter_event, input.a)} :
       /\ intervals' = l.intervals
       /\ bloom_filter_event' = l.bloom
  /\ \E r \in {update(peer.intervals, peer.bloom, input.b)} :
       peer' = [peer EXCEPT !.intervals = r.intervals, !.bloom = r.bloom]
  /\ op' = "update"
  /\ UNCHANGED <<arg, result, newest, input, output, replica_config, read,
                 writer, replica, storage, manager>>

\* Fresh -> Aligning(peer)
StartAlignment ==
  /\ op = "update"
  /\ replica.state = "Fresh"
  /\ replica' = [replica EXCEPT !.state = "Aligning"]
  /\ UNCHANGED <<intervals, bloom_filter_event, op, arg, result, newest, input,
                 output, replica_config, read, writer, peer, storage, manager>>

\* the digests of both sides for one upper bound are compared:
\* Aligning -> Divergent on a configuration mismatch, -> Aligned when nothing
\* is to request, else the requests are emitted
Compare ==
  /\ replica.state = "Aligning"
  /\ ~Pending
  /\ replica.round < MaxRounds
  /\ \E n \in 0..MaxIntervalIdx :
       /\ replica.round = 0 \/ n = replica.n
       /\ \E c \in {compare_digests(
                      digest_from(intervals, replica_config, n),
                      digest_from(peer.intervals, peer.replica_config, n))} :
            replica' =
              [state |-> IF c.error # "None" THEN "Divergent"
                         ELSE IF c.cold \/ c.warm # {} \/ c.hot # {}
                         THEN "Aligning"
                         ELSE "Aligned",
               error |-> c.error, n |-> n, round |-> replica.round + 1,
               cold |-> c.cold, warm |-> c.warm, hot |-> c.hot]
  /\ op' = "digest_from"
  /\ UNCHANGED <<intervals, bloom_filter_event, arg, result, newest, input,
                 output, replica_config, read, writer, peer, storage, manager>>

\* the events of the requested parts go to the other side, through update
Transfer ==
  /\ replica.state = "Aligning"
  /\ Pending
  /\ \E l \in {update(intervals, bloom_filter_event,
                      SeqOf(EventsRequested(peer.intervals, peer.replica_config,
                                            replica.n, replica)))} :
       /\ intervals' = l.intervals
       /\ bloom_filter_event' = l.bloom
  /\ \E r \in {update(peer.intervals, peer.bloom,
                      SeqOf(EventsRequested(intervals, replica_config,
                                            replica.n, replica)))} :
       peer' = [peer EXCEPT !.intervals = r.intervals, !.bloom = r.bloom]
  /\ replica' = [replica EXCEPT !.cold = FALSE, !.warm = {}, !.hot = {}]
  /\ op' = "update"
  /\ UNCHANGED <<arg, result, newest, input, output, replica_config, read,
                 writer, storage, manager>>

NextAlign == Replay \/ StartAlignment \/ Compare \/ Transfer

SpecAlign == InitAlign /\ [][NextAlign]_vars

SpecPeers == InitPeers /\ [][NextAlign]_vars

\* a tick: the digests of both sides are compared again for some upper
\* bound; Aligned -> Aligning when they mismatch, with the requests emitted
Tick ==
  /\ replica.state = "Aligned"
  /\ replica.round < MaxRounds
  /\ \E n \in 0..MaxIntervalIdx :
       \E c \in {compare_digests(
                   digest_from(intervals, replica_config, n),
                   digest_from(peer.intervals, peer.replica_config, n))} :
         replica' =
           [state |-> IF c.error # "None" THEN "Divergent"
                      ELSE IF c.cold \/ c.warm # {} \/ c.hot # {}
                      THEN "Aligning"
                      ELSE "Aligned",
            error |-> c.error, n |-> n, round |-> replica.round + 1,
            cold |-> c.cold, warm |-> c.warm, hot |-> c.hot]
  /\ op' = "tick"
  /\ UNCHANGED <<intervals, bloom_filter_event, arg, result, newest, input,
                 output, replica_config, read, writer, peer, storage, manager>>

\* a timeout that gives the alignment up
TimeoutGivingUp ==
  /\ replica.state = "Aligning"
  /\ Pending
  /\ replica' = [replica EXCEPT !.state = "Divergent",
                                !.error = "AlignmentTimeout",
                                !.cold = FALSE, !.warm = {}, !.hot = {}]
  /\ op' = "timeout"
  /\ UNCHANGED <<intervals, bloom_filter_event, arg, result, newest, input,
                 output, replica_config, read, writer, peer, storage, manager>>

\* the reply to a request did not come before the per-request timeout: the
\* requests are dropped and the replica, in Aligning, compares again
Timeout ==
  /\ replica.state = "Aligning"
  /\ Pending
  /\ replica' = [replica EXCEPT !.error = "AlignmentTimeout",
                                !.cold = FALSE, !.warm = {}, !.hot = {}]
  /\ op' = "timeout"
  /\ UNCHANGED <<intervals, bloom_filter_event, arg, result, newest, input,
                 output, replica_config, read, writer, peer, storage, manager>>

NextReplica ==
  Replay \/ StartAlignment \/ Compare \/ Transfer \/ Tick \/ Timeout

SpecReplica == InitPeers /\ [][NextReplica]_vars


(***************************************************************************)
(* The storage a log is attached to: create_and_start_storage.             *)
(***************************************************************************)
\* no storage was asked for yet
Unattached == [history |-> "none", created |-> FALSE, error |-> "None",
               log |-> FALSE]

\* the History of the Capability a backend reports
Histories == {"Latest", "All"}

\* a start_storage that attaches the log whatever the History
start_storage_any_history(history) ==
  [history |-> history, created |-> TRUE, error |-> "None", log |-> TRUE]

\* start_storage of a replicated storage, handed the created storage and
\* the capability: the log attaches to a History::Latest backend only
start_storage(history) ==
  IF history = "All"
  THEN [history |-> history, created |-> TRUE,
        error |-> "StorageIncompatible", log |-> FALSE]
  ELSE [history |-> history, created |-> TRUE, error |-> "None",
        log |-> TRUE]

\* before create_and_start_storage: no storage, no log
InitAttach ==
  /\ intervals = <<>>
  /\ bloom_filter_event = {}
  /\ op = "none"
  /\ arg = NoEvent
  /\ result = NoResult
  /\ newest = [k \in Keys |-> NoTs]
  /\ input = NoInput
  /\ output = NoOutput
  /\ replica_config = DefaultReplicaConfig
  /\ read = NoRead
  /\ writer = Idle
  /\ peer = NewLog(replica_config)
  /\ replica = FreshReplica
  /\ storage = Unattached
  /\ protocols = {}
  /\ transports = {}
  /\ calls = [t \in Tasks |-> NoCall]
  /\ config = [protocols |-> {}]
  /\ locks = NoLocks

\* create_and_start_storage: the capability of the backend is read, the
\* storage is created (or the error of the backend is returned), and
\* start_storage is handed both; a started storage has a new, empty log
CreateAndStartStorage ==
  /\ storage = Unattached
  /\ \E history \in Histories, created \in BOOLEAN :
       storage' = IF created THEN start_storage(history)
                  ELSE [history |-> history, created |-> FALSE,
                        error |-> "CreateStorage", log |-> FALSE]
  /\ op' = IF storage'.log THEN "new" ELSE "create_and_start_storage"
  /\ intervals' = <<>>
  /\ bloom_filter_event' = {}
  /\ UNCHANGED <<arg, result, newest, input, output, replica_config, read,
                 writer, peer, replica, manager>>

\* the log of a started storage receives events
AttachedInsertEvent == storage.log /\ InsertEvent

NextAttach == CreateAndStartStorage \/ AttachedInsertEvent

SpecAttach == InitAttach /\ [][NextAttach]_vars

(***************************************************************************)
(* The multicast TransportManager: link managers by protocol, transports   *)
(* by locator, two locks, and the calls of concurrent tasks.               *)
(***************************************************************************)
\* the call of task t moves on. In the other tasks: a close_multicast in
\* progress records that an open or a delete took a step meanwhile, and that
\* close was called on the transports in closed; a call that holds the link
\* manager of a protocol in gone, the protocols whose link manager leaves
\* the map, now holds a stale one
Step(t, call, gone, closed) ==
  calls' =
    [u \in Tasks |->
       IF u = t THEN call
       ELSE IF calls[u].op = "close_multicast"
       THEN [calls[u] EXCEPT
               !.pending = @ \ closed,
               !.opens = @ \/ call.op \in {"open_transport_multicast",
                                           "add_listener_multicast"},
               !.dels = @ \/ call.op \in {"del_transport_multicast",
                                          "del_listener_multicast"}]
       ELSE IF calls[u].manager = "registered"
               /\ calls[u].endpoint.protocol \in gone
       THEN [calls[u] EXCEPT !.manager = "stale"]
       ELSE calls[u]]

Moved(t, call) == Step(t, call, {}, {})

\* no call has a result to hand over: a call that returned hands its
\* result to its caller before any task goes on
Running == \A u \in Tasks : calls[u].at # "done"

\* a call that returned: its locals are dropped, its result is kept
Done(call, res) ==
  [NoCall EXCEPT !.op = call.op, !.at = "done", !.endpoint = call.endpoint,
                 !.result = res]

\* some transport is registered for the protocol
AnyOf(ts, protocol) == \E l \in ts : l.protocol = protocol

\* a manager as built, for some supported protocols, and idle tasks
InitMulticast ==
  /\ intervals = <<>>
  /\ bloom_filter_event = {}
  /\ op = "none"
  /\ arg = NoEvent
  /\ result = NoResult
  /\ newest = [k \in Keys |-> NoTs]
  /\ input = NoInput
  /\ output = NoOutput
  /\ replica_config = DefaultReplicaConfig
  /\ read = NoRead
  /\ writer = Idle
  /\ peer = NewLog(replica_config)
  /\ replica = FreshReplica
  /\ storage = Unattached
  /\ protocols = {}
  /\ transports = {}
  /\ calls = [t \in Tasks |-> NoCall]
  /\ config \in {[protocols |-> P] : P \in SUBSET Protocols}
  /\ locks = NoLocks

\* an open_transport_multicast that gets the link manager before it asks
\* whether the locator is multicast
OpenTransportMulticastManagerFirst(t) ==
  /\ Running
  /\ calls[t].at = "idle"
  /\ locks.protocols = 0
  /\ \E endpoint \in EndPoints,
        o \in {"open_transport_multicast", "add_listener_multicast"} :
       LET p == endpoint.protocol
           call == [NoCall EXCEPT !.op = o, !.at = "new_link",
                                  !.endpoint = endpoint,
                                  !.manager = "registered"]
       IN IF p \notin config.protocols
          THEN Moved(t, Done(call, "Unsupported protocol"))
               /\ UNCHANGED protocols
          ELSE /\ protocols' = protocols \cup {p}
               /\ IF is_multicast(to_locator(endpoint)) = "error"
                  THEN Moved(t, Done(call, "is_multicast"))
                  ELSE IF is_multicast(to_locator(endpoint)) = "false"
                  THEN Moved(t, Done(call, "unicast endpoint"))
                  ELSE Moved(t, call)
  /\ UNCHANGED <<log, storage, transports, config, locks>>

\* open_transport_multicast(endpoint), or add_listener_multicast(endpoint)
\* which delegates to it, up to the two checks: the protocol is one of
\* config.protocols, and the locator is a multicast one
OpenTransportMulticast(t) ==
  /\ Running
  /\ calls[t].at = "idle"
  /\ \E endpoint \in EndPoints,
        o \in {"open_transport_multicast", "add_listener_multicast"} :
       LET call == [NoCall EXCEPT !.op = o, !.at = "link_manager",
                                  !.endpoint = endpoint]
       IN IF endpoint.protocol \notin config.protocols
          THEN Moved(t, Done(call, "Unsupported protocol"))
          ELSE IF is_multicast(to_locator(endpoint)) = "error"
          THEN Moved(t, Done(call, "is_multicast"))
          ELSE IF is_multicast(to_locator(endpoint)) = "false"
          THEN Moved(t, Done(call, "unicast endpoint"))
          ELSE Moved(t, call)
  /\ UNCHANGED <<log, storage, protocols, transports, config, locks>>

\* a new_link_manager_multicast that makes and inserts a link manager
\* whatever the map holds
NewLinkManagerMulticastAlways(t) ==
  /\ Running
  /\ calls[t].at = "link_manager"
  /\ locks.protocols = 0
  /\ LET p == calls[t].endpoint.protocol
     IN IF p \notin config.protocols
        THEN Moved(t, Done(calls[t], "Unsupported protocol"))
             /\ UNCHANGED protocols
        ELSE \/ /\ Moved(t, Done(calls[t], "make"))
                /\ UNCHANGED protocols
             \/ /\ Step(t, [calls[t] EXCEPT !.at = "new_link",
                                            !.manager = "registered"],
                        {p}, {})
                /\ protocols' = protocols \cup {p}
  /\ UNCHANGED <<log, storage, transports, config, locks>>

\* new_link_manager_multicast(protocol), under the protocols lock: the link
\* manager of the protocol, made (which may fail) and inserted if there is
\* none
NewLinkManagerMulticast(t) ==
  /\ Running
  /\ calls[t].at = "link_manager"
  /\ locks.protocols = 0
  /\ LET p == calls[t].endpoint.protocol
     IN IF p \notin config.protocols
        THEN Moved(t, Done(calls[t], "Unsupported protocol"))
             /\ UNCHANGED protocols
        ELSE IF p \in protocols
        THEN Moved(t, [calls[t] EXCEPT !.at = "new_link",
                                       !.manager = "registered"])
             /\ UNCHANGED protocols
        ELSE \/ /\ Moved(t, Done(calls[t], "make"))
                /\ UNCHANGED protocols
             \/ /\ Moved(t, [calls[t] EXCEPT !.at = "new_link",
                                             !.manager = "registered"])
                /\ protocols' = protocols \cup {p}
  /\ UNCHANGED <<log, storage, transports, config, locks>>

\* the endpoint configuration is merged and the link is opened; either may
\* fail
NewLink(t) ==
  /\ Running
  /\ calls[t].at = "new_link"
  /\ \/ Moved(t, Done(calls[t], "new_link"))
     \/ Moved(t, [calls[t] EXCEPT !.at = "open_link"])
  /\ UNCHANGED <<log, storage, protocols, transports, config, locks>>

\* establishment::open_link, under the transports lock: the transport is
\* registered under the locator of the link, unless one is already
OpenLink(t) ==
  /\ Running
  /\ calls[t].at = "open_link"
  /\ locks.transports = 0
  /\ LET locator == to_locator(calls[t].endpoint)
     IN IF locator \in transports
        THEN Moved(t, Done(calls[t], "already exist"))
             /\ UNCHANGED transports
        ELSE /\ Moved(t, Done(calls[t], "Ok"))
             /\ transports' = transports \cup {locator}
  /\ UNCHANGED <<log, storage, protocols, config, locks>>

\* del_transport_multicast(locator) up to the call of
\* del_link_manager_multicast: the transports without the one of the
\* locator, whether there was one, and whether no transport of the protocol
\* of the locator is left
del_transport_multicast(ts, locator) ==
  LET guard == ts \ {locator}
  IN [transports |-> guard,
      res |-> locator \in ts,
      last |-> ~AnyOf(guard, locator.protocol)]

\* a del_listener_multicast that leaves the link manager alone
del_listener_multicast_keeping(ts, endpoint) ==
  LET locator == to_locator(endpoint)
      guard == ts \ {locator}
  IN [transports |-> guard,
      res |-> locator \in ts,
      last |-> FALSE]

\* del_listener_multicast(endpoint) up to the call of
\* del_link_manager_multicast
del_listener_multicast(ts, endpoint) ==
  LET locator == to_locator(endpoint)
      guard == ts \ {locator}
  IN [transports |-> guard,
      res |-> locator \in ts,
      last |-> ~AnyOf(guard, locator.protocol)]

\* what del_transport_multicast and del_listener_multicast return
DelResult(res) ==
  IF res THEN "Ok" ELSE "Can not delete the transport"

\* the first part of a delete, under the transports lock, which is kept
\* while the link manager is to be deleted
Delete(t, call, d) ==
  /\ transports' = d.transports
  /\ IF d.last
     THEN /\ Moved(t, [call EXCEPT !.at = "del_link_manager",
                                   !.found = d.res])
          /\ locks' = [locks EXCEPT !.transports = t]
     ELSE /\ Moved(t, Done(call, DelResult(d.res)))
          /\ UNCHANGED locks

\* del_transport_multicast(locator)
DelTransportMulticast(t) ==
  /\ Running
  /\ calls[t].at = "idle"
  /\ locks.transports = 0
  /\ \E locator \in Locators :
       Delete(t, [NoCall EXCEPT !.op = "del_transport_multicast",
                                !.endpoint = [protocol |-> locator.protocol,
                                              address |-> locator.address,
                                              config |-> ""]],
              del_transport_multicast(transports, locator))
  /\ UNCHANGED <<log, storage, protocols, config>>

\* del_listener_multicast(endpoint)
DelListenerMulticast(t) ==
  /\ Running
  /\ calls[t].at = "idle"
  /\ locks.transports = 0
  /\ \E endpoint \in EndPoints :
       Delete(t, [NoCall EXCEPT !.op = "del_listener_multicast",
                                !.endpoint = endpoint],
              del_listener_multicast(transports, endpoint))
  /\ UNCHANGED <<log, storage, protocols, config>>

\* del_link_manager_multicast(protocol), called with the transports lock
\* held: the protocols lock is taken, the link manager removed and its
\* result ignored; the delete returns and the transports lock is released
DelLinkManagerMulticast(t) ==
  /\ Running
  /\ calls[t].at = "del_link_manager"
  /\ locks.protocols = 0
  /\ protocols' = protocols \ {calls[t].endpoint.protocol}
  /\ locks' = [locks EXCEPT !.transports = 0]
  /\ Step(t, Done(calls[t], DelResult(calls[t].found)),
          {calls[t].endpoint.protocol}, {})
  /\ UNCHANGED <<log, storage, transports, config>>

\* close_multicast, first statement: the protocols map is cleared under its
\* lock, which is released
CloseMulticast(t) ==
  /\ Running
  /\ calls[t].at = "idle"
  /\ locks.protocols = 0
  /\ protocols' = {}
  /\ Step(t, [NoCall EXCEPT !.op = "close_multicast", !.at = "drain",
                            !.pending = transports],
          protocols, {})
  /\ UNCHANGED <<log, storage, transports, config, locks>>

\* a drain that leaves the transports in the map
DrainKeeping(t) ==
  /\ Running
  /\ calls[t].at = "drain"
  /\ locks.transports = 0
  /\ UNCHANGED transports
  /\ IF transports = {}
     THEN /\ Moved(t, Done(calls[t], "Ok"))
          /\ UNCHANGED locks
     ELSE /\ Moved(t, [calls[t] EXCEPT !.at = "closing",
                                       !.drained = transports])
          /\ locks' = [locks EXCEPT !.transports = t]
  /\ UNCHANGED <<log, storage, protocols, config>>

\* close_multicast, the head of the loop: the transports lock is taken and
\* the map drained; the lock is held until the loop ends
Drain(t) ==
  /\ Running
  /\ calls[t].at = "drain"
  /\ locks.transports = 0
  /\ transports' = {}
  /\ IF transports = {}
     THEN /\ Moved(t, Done(calls[t], "Ok"))
          /\ UNCHANGED locks
     ELSE /\ Moved(t, [calls[t] EXCEPT !.at = "closing",
                                       !.drained = transports])
          /\ locks' = [locks EXCEPT !.transports = t]
  /\ UNCHANGED <<log, storage, protocols, config>>

\* close_multicast, one turn of the loop: close is called on a drained
\* transport, its result ignored; after the last one the call returns and
\* the lock is released
CloseTransport(t) ==
  /\ Running
  /\ calls[t].at = "closing"
  /\ \E l \in calls[t].drained :
       IF calls[t].drained = {l}
       THEN /\ Step(t, Done(calls[t], "Ok"), {}, {l})
            /\ locks' = [locks EXCEPT !.transports = 0]
       ELSE /\ Step(t, [calls[t] EXCEPT !.drained = @ \ {l},
                                        !.pending = @ \ {l},
                                        !.twice = @ \/ l \notin calls[t].pending],
                    {}, {l})
            /\ UNCHANGED locks
  /\ UNCHANGED <<log, storage, protocols, transports, config>>

\* get_transport_multicast, get_transports_multicast,
\* get_listeners_multicast, get_locators_multicast: the transports are read
\* under their lock
GetMulticast(t) ==
  /\ Running
  /\ calls[t].at = "idle"
  /\ locks.transports = 0
  /\ \E o \in {"get_transport_multicast", "get_transports_multicast",
               "get_listeners_multicast", "get_locators_multicast"} :
       Moved(t, Done([NoCall EXCEPT !.op = o], "Ok"))
  /\ UNCHANGED <<log, storage, protocols, transports, config, locks>>

\* the caller has the result of the call, and may call again
Return(t) ==
  /\ calls[t].at = "done"
  /\ calls' = [calls EXCEPT ![t] = NoCall]
  /\ UNCHANGED <<log, storage, protocols, transports, config, locks>>

\* concurrent open_transport_multicast / add_listener_multicast calls
NextMulticast ==
  \E t \in Tasks :
    \/ Return(t)
    \/ OpenTransportMulticast(t)
    \/ NewLinkManagerMulticast(t)
    \/ NewLink(t)
    \/ OpenLink(t)

SpecMulticast == InitMulticast /\ [][NextMulticast]_vars

\* concurrent calls of every operation of the manager
NextManager ==
  \E t \in Tasks :
    \/ Return(t)
    \/ OpenTransportMulticast(t)
    \/ NewLinkManagerMulticast(t)
    \/ NewLink(t)
    \/ OpenLink(t)
    \/ DelTransportMulticast(t)
    \/ DelListenerMulticast(t)
    \/ DelLinkManagerMulticast(t)
    \/ CloseMulticast(t)
    \/ Drain(t)
    \/ CloseTransport(t)
    \/ GetMulticast(t)

\* a manager that supports every protocol
InitManager ==
  /\ InitMulticast
  /\ config = [protocols |-> Protocols]

SpecManager == InitManager /\ [][NextManager]_vars

(***************************************************************************)
(* Properties.                                                             *)
(***************************************************************************)
InBound(event) == get_time_classification(event.timestamp).ok

\* the stored events of one key
StoredOf(ivs, key) == {x \in StoredEvents(ivs) : x.key_expr = key}

\* XOR of the fingerprints of the events of a sub-interval, from its events
RECURSIVE XorOfKeys(_, _)
XorOfKeys(events, keys) ==
  IF keys = {} THEN 0
  ELSE LET k == CHOOSE x \in keys : TRUE
       IN xor(events[k].fingerprint, XorOfKeys(events, keys \ {k}))

XorOfSubInterval(sub) == XorOfKeys(sub.events, DOMAIN sub.events)

\* XOR of the fingerprints of the events of an interval, from its events
RECURSIVE XorOfSubs(_, _)
XorOfSubs(subs, idxs) ==
  IF idxs = {} THEN 0
  ELSE LET s == CHOOSE x \in idxs : TRUE
       IN xor(XorOfSubInterval(subs[s]), XorOfSubs(subs, idxs \ {s}))

XorOfInterval(interval) ==
  XorOfSubs(interval.sub_intervals, DOMAIN interval.sub_intervals)

\* C1: Uniqueness. In every state reached by insert_event / update calls (any
\* key, timestamp, action, in bound or out of bound) each key has an event in
\* at most one sub-interval of one interval.
C1_Uniqueness ==
  \A k \in Keys : Cardinality(PlacesOf(intervals, k)) <= 1

\* every key is stored, over two intervals, and a replacement emptied a place
C1_Witness ==
  /\ op = "update"
  /\ \A k \in Keys : PlacesOf(intervals, k) # {}
  /\ Cardinality(DOMAIN intervals) >= 2
  /\ \E p \in Places(intervals) :
       DOMAIN intervals[p[1]].sub_intervals[p[2]].events = {}

\* C2: Per-key last-writer-wins. For every key for which an event was
\* inserted, lookup returns the event with the maximal timestamp among the
\* events handed to insert_event for that key (the in-bound ones, the only
\* ones a log can hold).
C2_LastWriterWins ==
  \A k \in Keys :
    newest[k] # NoTs =>
      /\ lookup(intervals, bloom_filter_event, k) # NoEvent
      /\ lookup(intervals, bloom_filter_event, k).timestamp = newest[k]

\* C3: LWW convergence. A then B into one empty log and B then A into another
\* leave the same stored events (key, timestamp, action, fingerprint).
C3_OrderIndependence ==
  output.done => output.ab = output.ba

\* C4: the outcome of insert_event for an in-bound event e. New(e) exactly
\* when no event of e's key was stored; ReplacedOlder(old) exactly when the
\* stored event old of that key is strictly older, and then old is gone and e
\* is stored; NotInsertedAsOlder exactly when the stored event is as new or
\* newer.
C4_Step ==
  (op' = "insert_event" /\ InBound(arg')) =>
    LET before == StoredOf(intervals, arg'.key_expr)
    IN /\ (result'.kind = "New") <=> (before = {})
       /\ (result'.kind = "New") => result'.event = arg'
       /\ (result'.kind = "ReplacedOlder") <=>
            (\E old \in before : TsLess(old.timestamp, arg'.timestamp))
       /\ (result'.kind = "ReplacedOlder") =>
            /\ result'.event \in before
            /\ result'.event \notin StoredEvents(intervals')
       /\ (result'.kind \in {"New", "ReplacedOlder"}) =>
            arg' \in StoredEvents(intervals')
       /\ (result'.kind = "NotInsertedAsOlder") <=>
            (\E old \in before : TsLeq(arg'.timestamp, old.timestamp))
       /\ result'.kind \in {"New", "ReplacedOlder", "NotInsertedAsOlder"}

\* C4: the outcome of insert_event for an in-bound event, at every step of every behaviour
C4_Outcome == [][C4_Step]_vars

\* an in-bound event of a key that is not stored was inserted as New although
\* the Bloom filter reported the key: a stored event of another key sets the
\* same bits
C4_Witness ==
  /\ result.kind = "New"
  /\ InBound(arg)
  /\ arg \in StoredEvents(intervals)
  /\ \E x \in StoredEvents(intervals) :
       x.key_expr # arg.key_expr /\ BloomBits(x.key_expr) = BloomBits(arg.key_expr)

\* C5: All-or-nothing insertion. A call whose outcome is NotInsertedAsOlder
\* or NotInsertedAsOutOfBound leaves the intervals (stored events, cached
\* fingerprints) exactly as before: an out-of-bound event whose key has a
\* stored event leaves that event in the log.
C5_Step ==
  (/\ op' = "insert_event"
   /\ result'.kind \in {"NotInsertedAsOlder", "NotInsertedAsOutOfBound"})
    => intervals' = intervals

\* C5: a call that does not insert leaves the intervals unchanged, at every step of every behaviour
C5_AllOrNothing == [][C5_Step]_vars

\* C6: Out-of-bound handling. An event whose timestamp does not classify
\* returns NotInsertedAsOutOfBound and leaves the Bloom filter as it was.
C6_Step ==
  (op' = "insert_event" /\ ~InBound(arg')) =>
    /\ result'.kind = "NotInsertedAsOutOfBound"
    /\ bloom_filter_event' = bloom_filter_event

\* C6: an out-of-bound event is refused and the Bloom filter is left alone, at every step of every behaviour
C6_OutOfBound == [][C6_Step]_vars

\* an out-of-bound event was refused, its key is still not reported present,
\* and the log holds events of other keys
C6_Witness ==
  /\ result.kind = "NotInsertedAsOutOfBound"
  /\ ~InBound(arg)
  /\ ~BloomCheck(bloom_filter_event, arg.key_expr)
  /\ StoredEvents(intervals) # {}

\* C7: Tie policy. An event whose key is stored with an equal Timestamp,
\* whatever its action, returns NotInsertedAsOlder and changes nothing.
C7_Step ==
  (/\ op' = "insert_event"
   /\ \E x \in StoredOf(intervals, arg'.key_expr) :
        x.timestamp = arg'.timestamp)
    => /\ result'.kind = "NotInsertedAsOlder"
       /\ intervals' = intervals
       /\ bloom_filter_event' = bloom_filter_event

\* C7: an event with the stored timestamp is refused and changes nothing, at every step of every behaviour
C7_Tie == [][C7_Step]_vars

\* an event with the incumbent's timestamp and the other action was refused
C7_Witness ==
  /\ result.kind = "NotInsertedAsOlder"
  /\ \E x \in StoredOf(intervals, arg.key_expr) :
       x.timestamp = arg.timestamp /\ x.action # arg.action

\* C8: Idempotent re-insertion. After a call that returned New(e), the same
\* event again returns NotInsertedAsOlder and leaves intervals and Bloom
\* filter as they were.
C8_Step ==
  (/\ op = "insert_event" /\ result.kind = "New"
   /\ op' = "insert_event" /\ arg' = arg)
    => /\ result'.kind = "NotInsertedAsOlder"
       /\ intervals' = intervals
       /\ bloom_filter_event' = bloom_filter_event

\* C8: the same event again is refused and changes nothing, at every step of every behaviour
C8_Idempotent == [][C8_Step]_vars

\* the stored event itself was handed over again and refused
C8_Witness ==
  /\ result.kind = "NotInsertedAsOlder"
  /\ arg \in StoredEvents(intervals)

\* C9: Fingerprint homomorphism. The cached fingerprint of every Interval and
\* of every SubInterval is the XOR of the fingerprints of the events it holds
\* (0 when empty).
C9_Fingerprints ==
  \A i \in DOMAIN intervals :
    /\ intervals[i].fingerprint = XorOfInterval(intervals[i])
    /\ \A s \in DOMAIN intervals[i].sub_intervals :
         intervals[i].sub_intervals[s].fingerprint =
           XorOfSubInterval(intervals[i].sub_intervals[s])

\* a replacement removed an event with a non-zero fingerprint from another
\* interval than the one the new event went to
C9_Witness ==
  /\ result.kind = "ReplacedOlder"
  /\ result.event.fingerprint # 0
  /\ IntervalOf(result.event.timestamp) # IntervalOf(arg.timestamp)
  /\ Cardinality(StoredEvents(intervals)) >= 2

\* C10: Bloom soundness. Every key with a stored event is reported present by
\* the Bloom filter.
C10_BloomSound ==
  \A e \in StoredEvents(intervals) : BloomCheck(bloom_filter_event, e.key_expr)

\* events are stored while the filter still reports some key absent
C10_Witness ==
  /\ StoredEvents(intervals) # {}
  /\ \E k \in Keys : ~BloomCheck(bloom_filter_event, k)
  /\ \E k \in Keys :
       BloomCheck(bloom_filter_event, k) /\ StoredOf(intervals, k) = {}

\* XOR of the cached fingerprints of the intervals idxs
RECURSIVE XorOfIntervals(_, _)
XorOfIntervals(ivs, idxs) ==
  IF idxs = {} THEN 0
  ELSE LET i == CHOOSE x \in idxs : TRUE
       IN xor(ivs[i].fingerprint, XorOfIntervals(ivs, idxs \ {i}))

\* the era bounds of the digest the last digest_from call returned
HotLower == hot_era_lower_bound(replica_config, read.n)
WarmLower == warm_era_lower_bound(replica_config, read.n)

\* C11: lookup(k) returns Some(e) exactly when an event of key k is stored in
\* some interval, e is then that stored event, a Bloom false positive for a
\* key that is not stored returns None, and the call changes neither the
\* intervals nor the Bloom filter.
C11_Step ==
  (op' = "lookup") =>
    LET stored == StoredOf(intervals, read'.n)
    IN /\ (read'.event # NoEvent) <=> (stored # {})
       /\ (read'.event # NoEvent) => stored = {read'.event}
       /\ intervals' = intervals
       /\ bloom_filter_event' = bloom_filter_event

\* C11: lookup returns the stored event of the key or None and changes nothing, at every step of every behaviour
C11_Lookup == [][C11_Step]_vars

\* a lookup of a key that is not stored returned None although the Bloom
\* filter reports the key, while another key is stored in the older of two
\* intervals
C11_Witness ==
  /\ read.kind = "lookup"
  /\ read.event = NoEvent
  /\ BloomCheck(bloom_filter_event, read.n)
  /\ Cardinality(DOMAIN intervals) >= 2
  /\ \E k \in Keys : /\ lookup(intervals, bloom_filter_event, k) # NoEvent
                     /\ PlacesOf(intervals, k) # {}
                     /\ \A q \in PlacesOf(intervals, k) : q[1] < Max(DOMAIN intervals)

\* C12: the cold era and the cut-off of digest_from(upper). The cold
\* fingerprint is the XOR of the fingerprints of exactly the intervals below
\* warm_era_lower_bound(upper), and no interval above upper is listed in the
\* warm or the hot era (nor, being at or above the warm lower bound, XORed
\* into the cold fingerprint).
C12_Cold ==
  (read.kind = "digest_from") =>
    /\ read.digest.cold_era_fingerprint =
         XorOfIntervals(intervals, {i \in DOMAIN intervals : i < WarmLower})
    /\ WarmLower <= read.n + 1
    /\ \A i \in DOMAIN read.digest.warm_era_fingerprints : i <= read.n
    /\ \A i \in DOMAIN read.digest.hot_era_fingerprints : i <= read.n

\* a digest with a non-zero cold fingerprint of a log that has an interval
\* with events after the upper bound
C12_Witness ==
  /\ read.kind = "digest_from"
  /\ read.digest.cold_era_fingerprint # 0
  /\ \E i \in DOMAIN intervals : i > read.n /\ intervals[i].fingerprint # 0

\* C13: the warm and hot eras of digest_from(upper). The warm map lists
\* exactly the intervals in [warm lower, hot lower) with a non-zero
\* fingerprint, each with its fingerprint; the hot map lists exactly the
\* intervals in [hot lower, upper], each with the fingerprints of its
\* sub-intervals; no interval is in two eras.
C13_WarmHot ==
  (read.kind = "digest_from") =>
    LET warm == read.digest.warm_era_fingerprints
        hot == read.digest.hot_era_fingerprints
    IN /\ DOMAIN warm = {i \in DOMAIN intervals :
                           /\ WarmLower <= i /\ i < HotLower
                           /\ intervals[i].fingerprint # 0}
       /\ \A i \in DOMAIN warm : warm[i] = intervals[i].fingerprint
       /\ DOMAIN hot = {i \in DOMAIN intervals : HotLower <= i /\ i <= read.n}
       /\ \A i \in DOMAIN hot :
            /\ DOMAIN hot[i] \subseteq DOMAIN intervals[i].sub_intervals
            /\ \A s \in DOMAIN hot[i] :
                 hot[i][s] = intervals[i].sub_intervals[s].fingerprint
            /\ \A s \in DOMAIN intervals[i].sub_intervals :
                 intervals[i].sub_intervals[s].fingerprint # 0
                   => s \in DOMAIN hot[i]
       /\ DOMAIN warm \cap DOMAIN hot = {}
       /\ \A i \in DOMAIN warm \cup DOMAIN hot : i >= WarmLower

\* a digest with a warm interval and a hot interval, of a log that has a
\* further interval with a zero fingerprint
C13_Witness ==
  /\ read.kind = "digest_from"
  /\ read.digest.warm_era_fingerprints # <<>>
  /\ \E i \in DOMAIN read.digest.hot_era_fingerprints :
       read.digest.hot_era_fingerprints[i] # <<>>

\* C14: Sparse digest. The Digest has no entry for an empty interval or an
\* empty sub-interval: no warm entry with fingerprint 0, no hot sub-interval
\* entry with fingerprint 0, no hot entry for an interval that holds no event.
C14_Sparse ==
  (read.kind = "digest_from") =>
    LET warm == read.digest.warm_era_fingerprints
        hot == read.digest.hot_era_fingerprints
    IN /\ \A i \in DOMAIN warm : warm[i] # 0
       /\ \A i \in DOMAIN hot : \A s \in DOMAIN hot[i] : hot[i][s] # 0
       /\ \A i \in DOMAIN hot : EventsOfInterval(intervals[i]) # {}

\* C15: Digest stability. digest_from(n) leaves the intervals and the Bloom
\* filter as they were, and a second call with the same n right after the
\* first returns an equal Digest.
C15_Step ==
  /\ (op' = "digest_from") =>
       /\ intervals' = intervals
       /\ bloom_filter_event' = bloom_filter_event
  /\ (op = "digest_from" /\ op' = "digest_from" /\ read'.n = read.n) =>
       read'.digest = read.digest

\* C15: digest_from is a pure read and repeats its answer, at every step of every behaviour
C15_Stable == [][C15_Step]_vars

\* a digest that lists events in the hot era was returned, and the log still
\* holds events
C15_Witness ==
  /\ read.kind = "digest_from"
  /\ \E i \in DOMAIN read.digest.hot_era_fingerprints :
       read.digest.hot_era_fingerprints[i] # <<>>
  /\ StoredEvents(intervals) # {}

\* the first event of the log was in bound, and the last call was the
\* digest_from of its interval
DigestOfFirst ==
  /\ arg # NoEvent
  /\ InBound(arg)
  /\ read.kind = "digest_from"
  /\ read.n = IntervalOf(arg.timestamp)

RECURSIVE EachInOrder(_, _)
EachInOrder(events, n) ==
  IF n = 0 THEN [intervals |-> <<>>, bloom |-> {}]
  ELSE LET before == EachInOrder(events, n - 1)
           r == insert_event(before.intervals, before.bloom, events[n])
       IN [intervals |-> r.intervals, bloom |-> r.bloom]

\* the outcome of the n-th of these calls
OutcomeInOrder(events, n) ==
  LET before == EachInOrder(events, n - 1)
  IN insert_event(before.intervals, before.bloom, events[n]).result

\* C18: update(events) leaves the intervals and the Bloom filter that calling
\* insert_event on each event in order leaves: an out-of-bound or stale event
\* does not stop the iteration, and the last event that such calls insert is
\* stored after update.
C18_UpdateEach ==
  (op = "update") =>
    /\ intervals = EachInOrder(input.a, Len(input.a)).intervals
    /\ bloom_filter_event = EachInOrder(input.a, Len(input.a)).bloom
    /\ \A n \in DOMAIN input.a :
         (/\ OutcomeInOrder(input.a, n).kind \in {"New", "ReplacedOlder"}
          /\ \A m \in DOMAIN input.a :
               m > n => input.a[m].key_expr # input.a[n].key_expr)
           => input.a[n] \in StoredEvents(intervals)

\* update stored its first event, went over a second event that was not
\* inserted (out of bound or stale) and stored the third
C18_Witness ==
  /\ op = "update"
  /\ Len(input.a) = 3
  /\ OutcomeInOrder(input.a, 1).kind = "New"
  /\ OutcomeInOrder(input.a, 2).kind
       \in {"NotInsertedAsOlder", "NotInsertedAsOutOfBound"}
  /\ OutcomeInOrder(input.a, 3).kind = "New"
  /\ {input.a[1], input.a[3]} \subseteq StoredEvents(intervals)

\* the log as the last completed insert_event call left it
Completed ==
  IF writer = Idle
  THEN [intervals |-> intervals, bloom |-> bloom_filter_event]
  ELSE writer.before

\* C19: Serialized access. Every lookup / digest_from returns what it returns
\* on the log as the last completed insert_event call left it, never what
\* the log holds between the removal of the older event and the insertion of
\* the newer one, and the log it reads has a Bloom filter that reports every
\* stored key and cached fingerprints that are the XOR of the stored events;
\* every call that returns leaves the log that insert_event as a whole leaves.
C19_Step ==
  /\ (op' = "lookup") =>
       read'.event = lookup(Completed.intervals, Completed.bloom, read'.n)
  /\ (op' = "digest_from") =>
       read'.digest = digest_from(Completed.intervals, replica_config, read'.n)
  /\ (op' \in {"lookup", "digest_from"}) =>
       /\ \A e \in StoredEvents(intervals) :
            BloomCheck(bloom_filter_event, e.key_expr)
       /\ \A i \in DOMAIN intervals :
            intervals[i].fingerprint = XorOfInterval(intervals[i])
  /\ (writer # Idle /\ writer' = Idle) =>
       /\ intervals' = insert_event(writer.before.intervals,
                                    writer.before.bloom, writer.event).intervals
       /\ bloom_filter_event' = insert_event(writer.before.intervals,
                                    writer.before.bloom, writer.event).bloom

\* C19: reads see the log between whole insert_event calls, at every step of every behaviour
C19_Serialized == [][C19_Step]_vars

\* a lookup returned the newer event of a key right after the call that
\* replaced the older one in another interval
C19_Witness ==
  /\ read.kind = "lookup"
  /\ writer = Idle
  /\ read.event # NoEvent
  /\ \E i \in DOMAIN intervals :
       /\ EventsOfInterval(intervals[i]) = {}
       /\ i # IntervalOf(read.event.timestamp)

\* the digests of both sides for the upper bound of the last comparison
LocalDigest == digest_from(intervals, replica_config, replica.n)
PeerDigest == digest_from(peer.intervals, peer.replica_config, replica.n)

C20_Step ==
  /\ (/\ replica'.round = replica.round + 1
      /\ configuration_fingerprint(replica_config)
           # configuration_fingerprint(peer.replica_config))
       => /\ replica'.error = "ConfigurationMismatch"
          /\ replica'.state = "Divergent"
          /\ ~replica'.cold /\ replica'.warm = {} /\ replica'.hot = {}
          /\ intervals' = intervals
          /\ bloom_filter_event' = bloom_filter_event
  /\ (replica.state = "Divergent")
       => /\ replica'.state = "Divergent"
          /\ intervals' = intervals
          /\ bloom_filter_event' = bloom_filter_event

\* C20: a configuration mismatch aborts the comparison and leaves the log alone, at every step of every behaviour
C20_Mismatch == [][C20_Step]_vars

\* the replica is Divergent after a comparison with a peer whose log holds
\* other events than the local log, which holds some
C20_Witness ==
  /\ replica.state = "Divergent"
  /\ replica.error = "ConfigurationMismatch"
  /\ StoredEvents(intervals) # {}
  /\ StoredEvents(peer.intervals) # StoredEvents(intervals)
  /\ StoredEvents(intervals) = StoredEvents(update(<<>>, {}, input.a).intervals)


\* the hot map of a digest holds a fingerprint for sub-interval x of interval i
HotHas(digest, i, x) ==
  /\ i \in DOMAIN digest.hot_era_fingerprints
  /\ x \in DOMAIN digest.hot_era_fingerprints[i]

\* C21: Digest comparison requests exactly the divergent parts. After a
\* comparison of two digests with equal configuration fingerprints, the cold
\* era is requested iff the cold fingerprints differ, a warm interval iff it
\* is absent on one side or its two fingerprints differ, a hot sub-interval
\* iff it is absent on one side or its two fingerprints differ, and nothing
\* else is requested.
C21_Requests ==
  (/\ op = "digest_from"
   /\ configuration_fingerprint(replica_config)
        = configuration_fingerprint(peer.replica_config))
    => /\ replica.error = "None"
       /\ replica.cold
            <=> LocalDigest.cold_era_fingerprint
                  # PeerDigest.cold_era_fingerprint
       /\ replica.warm \subseteq 0..MaxIntervalIdx
       /\ \A i \in 0..MaxIntervalIdx :
            i \in replica.warm
              <=> LET l == LocalDigest.warm_era_fingerprints
                      r == PeerDigest.warm_era_fingerprints
                  IN  \/ (i \in DOMAIN l) # (i \in DOMAIN r)
                      \/ i \in DOMAIN l /\ i \in DOMAIN r /\ l[i] # r[i]
       /\ replica.hot
            \subseteq (0..MaxIntervalIdx)
                        \X (0..configuration.sub_intervals - 1)
       /\ \A i \in 0..MaxIntervalIdx :
            \A x \in 0..configuration.sub_intervals - 1 :
              <<i, x>> \in replica.hot
                <=> \/ HotHas(LocalDigest, i, x) # HotHas(PeerDigest, i, x)
                    \/ /\ HotHas(LocalDigest, i, x)
                       /\ HotHas(PeerDigest, i, x)
                       /\ LocalDigest.hot_era_fingerprints[i][x]
                            # PeerDigest.hot_era_fingerprints[i][x]

\* a comparison asked for a warm interval the peer has no fingerprint of,
\* and for a hot sub-interval both sides have a fingerprint of
C21_Witness ==
  /\ op = "digest_from"
  /\ \E i \in replica.warm : i \notin DOMAIN PeerDigest.warm_era_fingerprints
  /\ \E h \in replica.hot :
       HotHas(LocalDigest, h[1], h[2]) /\ HotHas(PeerDigest, h[1], h[2])

\* C22: Equal digests need no transfer. After a comparison of two digests
\* with equal configuration fingerprints, cold fingerprints, warm maps and
\* hot maps, no event is requested and the replica is Aligned; when this is
\* the first comparison, no event went from one log to the other.
C22_NoTransfer ==
  (/\ op = "digest_from"
   /\ LocalDigest.configuration_fingerprint
        = PeerDigest.configuration_fingerprint
   /\ LocalDigest.cold_era_fingerprint = PeerDigest.cold_era_fingerprint
   /\ LocalDigest.warm_era_fingerprints = PeerDigest.warm_era_fingerprints
   /\ LocalDigest.hot_era_fingerprints = PeerDigest.hot_era_fingerprints)
    => /\ ~Pending
       /\ replica.error = "None"
       /\ replica.state = "Aligned"
       /\ replica.round = 1
            => /\ intervals = update(<<>>, {}, input.a).intervals
               /\ peer.intervals = update(<<>>, {}, input.b).intervals

\* the first comparison found two logs that hold events Aligned, the two
\* replicas having different era sizes
C22_Witness ==
  /\ op = "digest_from"
  /\ replica.state = "Aligned"
  /\ replica.round = 1
  /\ StoredEvents(intervals) # {}
  /\ StoredEvents(peer.intervals) # {}
  /\ replica_config # peer.replica_config


\* what the replica state machine allows of one step
C23_Step ==
  /\ (replica.state = "Fresh") => replica'.state \in {"Fresh", "Aligning"}
  /\ (replica'.state = "Aligned" /\ replica.state # "Aligned")
       => replica.state = "Aligning"
  /\ (replica.state = "Aligned" /\ replica'.state # "Aligned")
       => /\ replica'.state = "Aligning"
          /\ op' = "tick"
          /\ digest_from(intervals, replica_config, replica'.n)
               # digest_from(peer.intervals, peer.replica_config, replica'.n)
  /\ (op' = "timeout" /\ Pending)
       => /\ replica.state = "Aligning"
          /\ replica'.state = "Aligning"
          /\ ~Pending'
          /\ intervals' = intervals
  /\ (replica'.state = "Divergent" /\ replica.state # "Divergent")
       => /\ configuration_fingerprint(replica_config)
               # configuration_fingerprint(peer.replica_config)
          /\ replica'.error = "ConfigurationMismatch"
  /\ (replica.state = "Divergent") => replica'.state = "Divergent"

\* C23: Replica state machine. A replica starts Fresh and reaches Aligned
\* only from Aligning; from Aligned it re-enters Aligning only on a tick
\* whose digests mismatch; a per-request timeout leaves it in Aligning for a
\* retry; Divergent is entered only on a configuration mismatch and is never
\* left. At every step of every behaviour.
C23_StateMachine == replica.state = "Fresh" /\ [][C23_Step]_vars

\* a replica that was Aligned is Aligning again after a tick that compared
\* the digests of another upper bound
C23_Witness ==
  /\ op = "tick"
  /\ replica.state = "Aligning"
  /\ replica.round = 2
  /\ Pending


C25_Step ==
  \A k \in Keys :
    BloomCheck(bloom_filter_event, k) => BloomCheck(bloom_filter_event', k)

\* C25: Bloom filter monotonicity. No insert_event, lookup or digest_from
\* call clears a Bloom membership: a key reported present is reported
\* present in every later state, even after its event was replaced or
\* removed. At every step of every behaviour.
C25_BloomMonotone == [][C25_Step]_vars

\* after an insert_event, a key is reported present while the log holds no
\* event of it, nor of any key that sets the same bits
C25_Witness ==
  /\ op = "insert_event"
  /\ \E k \in Keys :
       /\ BloomCheck(bloom_filter_event, k)
       /\ \A e \in StoredEvents(intervals) :
            BloomBits(e.key_expr) \cap BloomBits(k) = {}

\* the stored events with their place: interval, sub-interval, event
PlacedEvents(ivs) ==
  UNION {{<<p[1], p[2], ivs[p[1]].sub_intervals[p[2]].events[k]>> :
            k \in DOMAIN ivs[p[1]].sub_intervals[p[2]].events} :
         p \in Places(ivs)}

\* what one insert_event call takes away, and what it leaves alone
C27_Step ==
  LET removed == PlacedEvents(intervals) \ PlacedEvents(intervals')
  IN /\ Cardinality(removed) <= 1
     /\ \A x \in removed : x[3].key_expr = arg'.key_expr
     /\ {x \in PlacedEvents(intervals) : x[3].key_expr # arg'.key_expr}
          = {x \in PlacedEvents(intervals') : x[3].key_expr # arg'.key_expr}

\* C27: Frame condition of insert_event. insert_event(e) removes at most one
\* stored event, and only an event of e's key; the stored events of every
\* other key and their interval / sub-interval are the same before and
\* after. At every step of every behaviour.
C27_Frame == [][C27_Step]_vars

\* an insert_event replaced the event of its key, in a log that holds an
\* event of another key in the sub-interval the new event went to
C27_Witness ==
  /\ op = "insert_event"
  /\ result.kind = "ReplacedOlder"
  /\ \E x \in PlacedEvents(intervals), y \in PlacedEvents(intervals) :
       /\ x[3] = arg
       /\ y[3].key_expr # arg.key_expr
       /\ y[1] = x[1] /\ y[2] = x[2]

\* every stored event is where the classification of its timestamp says
C28_Placed ==
  \A x \in PlacedEvents(intervals) :
    LET c == get_time_classification(x[3].timestamp)
    IN /\ c.ok
       /\ x[1] = c.interval_idx
       /\ x[2] = c.sub_interval_idx
       /\ x[2] \in 0..configuration.sub_intervals - 1

\* a later timestamp of a key is not stored in an older interval
C28_Step ==
  \A x \in PlacedEvents(intervals), y \in PlacedEvents(intervals') :
    (x[3].key_expr = y[3].key_expr /\ TsLess(x[3].timestamp, y[3].timestamp))
      => x[1] <= y[1]

\* C28: Interval placement invariant. In every reachable state every stored
\* event sits in the interval and the sub-interval get_time_classification
\* returns for its timestamp, the sub-interval index being in
\* 0..sub_intervals - 1; and at every step, a later timestamp of a key is
\* never stored in an older interval than an earlier one was.
C28_Placement == []C28_Placed /\ [][C28_Step]_vars

\* the log holds events in every interval and every sub-interval, and the
\* last insert_event moved its key to a newer interval
C28_Witness ==
  /\ op = "insert_event"
  /\ result.kind = "ReplacedOlder"
  /\ Places(intervals)
       = (0..MaxIntervalIdx) \X (0..configuration.sub_intervals - 1)
  /\ \E x \in PlacedEvents(intervals) :
       x[3] = arg /\ x[1] > IntervalOf(result.event.timestamp)


\* the values of the index type (u64, narrowed)
IntervalIdxs == 0..MaxIntervalIdx

\* the era bounds of digest_from(u) have the values of the two formulas,
\* are ordered, and split 0..u and the entries of the digest in three eras
EraBoundsOf(cfg, u, digest) ==
  LET hl == hot_era_lower_bound(cfg, u)
      wl == warm_era_lower_bound(cfg, u)
  IN /\ hl = Max({0, u - cfg.hot_era_size + 1})
     /\ wl = Max({0, hl - cfg.warm_era_size})
     /\ wl <= hl /\ hl <= u + 1
     /\ \A i \in 0..u :
          /\ i < wl \/ (wl <= i /\ i < hl) \/ hl <= i
          /\ ~(i < wl /\ hl <= i)
     /\ \A i \in DOMAIN digest.warm_era_fingerprints : wl <= i /\ i < hl
     /\ \A i \in DOMAIN digest.hot_era_fingerprints : hl <= i /\ i <= u
     /\ (intervals # <<>> /\ \A i \in DOMAIN intervals : i >= wl)
          => digest.cold_era_fingerprint = 0

C29_ContentOnly ==
  (/\ replica_config = peer.replica_config
   /\ StoredEvents(intervals) = StoredEvents(peer.intervals))
    => \A n \in 0..MaxIntervalIdx :
         digest_from(intervals, replica_config, n)
           = digest_from(peer.intervals, peer.replica_config, n)


\* a call to open_transport_multicast or add_listener_multicast whose
\* endpoint is refused returns an error at once and registers nothing
C30_Step ==
  \A t \in Tasks :
    (/\ calls[t].at \in {"idle", "done"}
     /\ calls'[t] # calls[t]
     /\ calls'[t].op \in {"open_transport_multicast", "add_listener_multicast"}
     /\ \/ calls'[t].endpoint.protocol \notin config.protocols
        \/ is_multicast(to_locator(calls'[t].endpoint)) # "true")
      => /\ calls'[t].at = "done"
         /\ calls'[t].result # "Ok"
         /\ calls'[t].result # "None"
         /\ protocols' = protocols
         /\ transports' = transports

\* every registered link manager is of a supported protocol, every
\* registered transport of a supported protocol and a multicast locator
C30_Registered ==
  /\ protocols \subseteq config.protocols
  /\ \A l \in transports :
       l.protocol \in config.protocols /\ is_multicast(l) = "true"

\* C30: Unsupported or unicast endpoint is rejected before any state
\* change. open_transport_multicast, and add_listener_multicast which
\* delegates to it, return an error and register neither a link manager nor
\* a transport when the protocol of the endpoint is not among the supported
\* protocols or when its locator is not a multicast locator.
C30_Rejected == []C30_Registered /\ [][C30_Step]_vars

\* add_listener_multicast returned an error for a unicast endpoint of a
\* supported protocol that has no link manager, while a transport of
\* another protocol is registered
C30_Witness ==
  \E t \in Tasks :
    /\ calls[t].op = "add_listener_multicast"
    /\ calls[t].at = "done"
    /\ calls[t].result = "unicast endpoint"
    /\ calls[t].endpoint.protocol \in config.protocols
    /\ calls[t].endpoint.protocol \notin protocols
    /\ transports # {}


\* a call of new_link_manager_multicast returns a link manager: it is the
\* one of the protocols map, inserted only if the protocol had none, and
\* the link managers the other calls hold stay the registered ones
C32_Step ==
  \A t \in Tasks :
    (calls[t].at = "link_manager" /\ calls'[t].at = "new_link")
      => LET p == calls[t].endpoint.protocol
         IN /\ p \in config.protocols
            /\ p \in protocols'
            /\ calls'[t].manager = "registered"
            /\ p \in protocols => protocols' = protocols
            /\ protocols' \subseteq protocols \cup {p}
            /\ \A u \in Tasks \ {t} : calls'[u] = calls[u]

\* every open that has obtained a link manager holds the one registered
\* for its protocol
C32_Same ==
  \A t \in Tasks :
    calls[t].at \in {"new_link", "open_link"}
      => /\ calls[t].manager = "registered"
         /\ calls[t].endpoint.protocol \in protocols

\* C32: Link manager registry under concurrency. For a supported protocol,
\* new_link_manager_multicast registers a link manager only when none is
\* registered for that protocol and otherwise returns the registered one;
\* under any interleaving of concurrent open_transport_multicast calls for
\* the same protocol, one link manager is registered and every caller
\* obtains that same one.
C32_OneLinkManager == []C32_Same /\ [][C32_Step]_vars

\* two opens for the same protocol both hold its link manager
C32_Witness ==
  \E t, u \in Tasks :
    /\ t # u
    /\ calls[t].at \in {"new_link", "open_link"}
    /\ calls[u].at \in {"new_link", "open_link"}
    /\ calls[t].endpoint.protocol = calls[u].endpoint.protocol
    /\ calls[t].manager = "registered"
    /\ calls[u].manager = "registered"


\* the locator a delete was called with
DelLocator(call) == to_locator(call.endpoint)

\* a delete of a registered locator: its first step removes that transport
\* only and returns Ok if a transport of the protocol remains; otherwise its
\* second step removes the link manager of that protocol only and returns Ok
C31_Step ==
  \A t \in Tasks :
    /\ (/\ calls[t].at = "idle"
        /\ calls'[t].op \in {"del_transport_multicast",
                             "del_listener_multicast"}
        /\ DelLocator(calls'[t]) \in transports)
         => /\ transports' = transports \ {DelLocator(calls'[t])}
            /\ protocols' = protocols
            /\ IF AnyOf(transports', calls'[t].endpoint.protocol)
               THEN calls'[t].at = "done" /\ calls'[t].result = "Ok"
               ELSE calls'[t].at = "del_link_manager" /\ calls'[t].found
    /\ (/\ calls[t].at = "del_link_manager"
        /\ calls[t].found
        /\ calls'[t] # calls[t])
         => /\ ~AnyOf(transports, calls[t].endpoint.protocol)
            /\ transports' = transports
            /\ protocols' = protocols \ {calls[t].endpoint.protocol}
            /\ calls'[t].at = "done"
            /\ calls'[t].result = "Ok"

\* del_listener_multicast of an endpoint does what del_transport_multicast
\* of its locator does
C31_Same ==
  \A e \in EndPoints :
    del_listener_multicast(transports, e)
      = del_transport_multicast(transports, to_locator(e))

\* C31: del_transport_multicast and del_listener_multicast on a registered
\* locator remove exactly that transport, and then remove the link manager
\* of that locator's protocol if and only if no remaining registered
\* transport uses the same protocol; other transports and the link managers
\* of other protocols are untouched, and both operations have the same
\* effect and result.
C31_Delete == []C31_Same /\ [][C31_Step]_vars

\* del_listener_multicast removed the last transport of a protocol and its
\* link manager, while a transport of the other protocol and its link
\* manager stay registered
C31_Witness ==
  \E t \in Tasks :
    /\ calls[t].op = "del_listener_multicast"
    /\ calls[t].at = "done"
    /\ calls[t].result = "Ok"
    /\ calls[t].endpoint.protocol \notin protocols
    /\ \E l \in transports : l.protocol \in protocols


\* a delete of a locator that is not registered changes neither map, in its
\* first step and in its call of del_link_manager_multicast, and returns an
\* error
C34_Step ==
  \A t \in Tasks :
    /\ (/\ calls[t].at = "idle"
        /\ calls'[t].op \in {"del_transport_multicast",
                             "del_listener_multicast"}
        /\ DelLocator(calls'[t]) \notin transports)
         => /\ transports' = transports
            /\ protocols' = protocols
            /\ calls'[t].at = "done"
                 => calls'[t].result = "Can not delete the transport"
    /\ (/\ calls[t].at = "del_link_manager"
        /\ ~calls[t].found
        /\ calls'[t] # calls[t])
         => /\ transports' = transports
            /\ protocols' = protocols
            /\ calls'[t].at = "done"
            /\ calls'[t].result = "Can not delete the transport"

\* C34: del_transport_multicast / del_listener_multicast called for a
\* locator that has no registered transport returns an error and leaves both
\* the transports map and the protocols (link manager) map unchanged,
\* including when a link manager for that protocol is registered while no
\* transport of that protocol is.
C34_Unchanged == [][C34_Step]_vars


\* C35: In every state reachable under any interleaving of
\* open_transport_multicast, del_transport_multicast, del_listener_multicast
\* and close_multicast, each transport registered in the transports map has
\* a link manager registered for its protocol in the protocols map.
C35_HasLinkManager == \A l \in transports : l.protocol \in protocols


\* a close_multicast returns, from an empty drain or with the call of close
\* on the last drained transport: both maps are empty, and the transports
\* registered when it started that close was not called on are the one it
\* now calls close on, none of them having been closed twice
Closed(t) ==
  /\ protocols' = {}
  /\ transports' = {}
  /\ calls[t].pending = calls[t].drained
  /\ ~calls[t].twice

\* a close_multicast that no open ran beside returns
C33_Step ==
  \A t \in Tasks :
    (/\ calls[t].op = "close_multicast"
     /\ calls[t].at \in {"drain", "closing"}
     /\ calls'[t].at = "done"
     /\ ~calls[t].opens)
      => Closed(t)

\* C33: After close_multicast completes with no concurrent open, the
\* protocols map and the transports map are both empty and close was invoked
\* exactly once on each transport that was registered when it started.
C33_Closed == [][C33_Step]_vars

\* a close_multicast that neither an open nor a delete ran beside returns
C33_StepAlone ==
  \A t \in Tasks :
    (/\ calls[t].op = "close_multicast"
     /\ calls[t].at \in {"drain", "closing"}
     /\ calls'[t].at = "done"
     /\ ~calls[t].opens
     /\ ~calls[t].dels)
      => Closed(t)

\* C33 amended: after close_multicast completes with no concurrent open and
\* no concurrent delete, both maps are empty and close was invoked exactly
\* once on each transport that was registered when it started.
C33_ClosedAlone == [][C33_StepAlone]_vars


\* a close_multicast that neither an open nor a delete ran beside has
\* cleared the protocols, drained the transports, and is to return with the
\* call of close on the last of them
C33_Witness ==
  \E t \in Tasks :
    /\ calls[t].op = "close_multicast"
    /\ calls[t].at = "closing"
    /\ ~calls[t].opens
    /\ ~calls[t].dels
    /\ ~calls[t].twice
    /\ Cardinality(calls[t].drained) = 1
    /\ calls[t].pending = calls[t].drained
    /\ protocols = {}
    /\ transports = {}
    /\ locks.transports = t

=============================================================================
